---- MODULE Spec2Model ----
(***************************************************************************)
(* A model of the C facade over the NMSLIB engine (src/nmslib_c.cpp,       *)
(* src/nmslib_c.h): one opaque index handle, the caller's allocators, the  *)
(* caller's result buffer, the per-thread last-error slot, and the public  *)
(* operations as atomic steps.  The engine (space and method registries,   *)
(* Search) is the environment: its answers are computed from the points a  *)
(* structure was built over, its failures are nondeterministic.            *)
(***************************************************************************)
EXTENDS Integers, Sequences, FiniteSets, TLC

\* ------------------------------------------------------------------ bounds
MaxData   == 2   \* points one handle holds at most
MaxBatch  == 2   \* elements of one batch insert
MaxK      == 2   \* largest k of a k-NN query
MaxCap    == 2   \* largest capacity of a caller's result buffer
MaxBlocks == 3   \* blocks the caller's allocators can have outstanding
MaxRadius == 2   \* largest radius of a range query
MaxThreads == 2  \* largest thread_pool_size of a batch query

\* ------------------------------------------------- enums of src/nmslib_c.h
NMSLIB_DATATYPE_DENSE_VECTOR       == 0
NMSLIB_DATATYPE_SPARSE_VECTOR      == 1
NMSLIB_DATATYPE_DENSE_UINT8_VECTOR == 2
NMSLIB_DATATYPE_OBJECT_AS_STRING   == 3

NMSLIB_DISTTYPE_FLOAT == 0
NMSLIB_DISTTYPE_INT   == 1

NMSLIB_SUCCESS                      == 0
NMSLIB_ERROR_NULL_POINTER           == 1
NMSLIB_ERROR_INVALID_ARGUMENT       == 2
NMSLIB_ERROR_OUT_OF_MEMORY          == 3
NMSLIB_ERROR_BUFFER_TOO_SMALL       == 4
NMSLIB_ERROR_SPACE_INCOMPATIBLE     == 5
NMSLIB_ERROR_INVALID_SPARSE_ELEMENT == 7
NMSLIB_ERROR_INDEX_BUILD_FAILED     == 8
NMSLIB_ERROR_QUERY_EXECUTION_FAILED == 9
NMSLIB_ERROR_DATA_IO_FAILED         == 10
NMSLIB_ERROR_RUNTIME                == 13
NMSLIB_ERROR_INDEX_NOT_BUILT        == 14

DataTypes == {NMSLIB_DATATYPE_DENSE_VECTOR, NMSLIB_DATATYPE_SPARSE_VECTOR,
              NMSLIB_DATATYPE_DENSE_UINT8_VECTOR, NMSLIB_DATATYPE_OBJECT_AS_STRING}
DistTypes == {NMSLIB_DISTTYPE_FLOAT, NMSLIB_DISTTYPE_INT}
\* a nmslib_dist_type_t argument is an int: one value outside the enum
BadDistType == NMSLIB_DISTTYPE_INT + 1

\* ------------------------------------------------------------ model values
NULL      == 0                        \* the null pointer
NoHandle  == [tag |-> "NoHandle"]   \* the caller holds no handle
NoIndex   == [tag |-> "NoIndex"]    \* index_ptr == nullptr
NullSpace == [tag |-> "NullSpace"]  \* CreateSpace returned nullptr
NoBatch   == [tag |-> "NoBatch"]   \* no batch query is in progress
NoFile    == [tag |-> "NoFile"]    \* nothing was saved at the path
Freed     == [tag |-> "Freed"]      \* an address no allocator has outstanding
NoReturn  == 0 - 1                   \* the call did not return (the process died)
Unwritten == 0 - 1                   \* a result slot the callee did not write

Threads    == {"T1", "T2"}
Allocators == {"A1", "A2"}  \* two caller-supplied (alloc, free, ctx) triples
Addrs      == 1..MaxBlocks

VARIABLES
    handle,      \* the nmslib_internal_index_t behind the caller's handle, or NoHandle
    created,     \* ghost: the (data_type, dist_type) the handle was created with
    heap,        \* Addrs -> Freed or the block an allocator has outstanding
    borrows,     \* data pointers the caller got from a borrow and has not released
    result,      \* the caller's nmslib_result_t after the last fill
    last_error,  \* thread -> code of the thread_local last_error_detail
    crashed,     \* the process died (an outcome of undefined behaviour)
    lastCall,    \* ghost: the last public call, its arguments and what it did
    disk,        \* the index image nmslib_save_index left at the path, or NoFile
    batch        \* the nmslib_knn_query_batch call in progress, or NoBatch

vars == <<handle, created, heap, borrows, result, last_error, crashed, lastCall,
         disk, batch>>

\* ------------------------------------------------------------- the engine
\* SpaceFactoryRegistry<float> and SpaceFactoryRegistry<int>: the space names
\* each registry knows, and the class of the space it creates.  The wrapper's
\* FLOAT branches cast the space to VectorSpace<float>, SpaceSparseVector<float>
\* and SpaceL2SqrSift, so the float registry holds one space of each kind.
FloatSpaces == [l2 |-> "vector", cosinesimil_sparse |-> "sparse", l2sqr_sift |-> "sift"]
IntSpaces   == [bit_hamming |-> "vector"]
SpaceNames  == {"l2", "cosinesimil_sparse", "l2sqr_sift", "bit_hamming", "nosuch"}

Registry(inst) == IF inst = "float" THEN FloatSpaces ELSE IntSpaces

\* CreateSpace(name, params) of registry inst: nullptr for a name it does not know
CreateSpace(inst, name) ==
    IF name \in DOMAIN Registry(inst)
    THEN [inst |-> inst, kind |-> Registry(inst)[name]]
    ELSE NullSpace

\* the instantiation index_create constructs for a dist_type (switch, lines 127-151)
InstOf(dist_type) ==
    IF dist_type = NMSLIB_DISTTYPE_FLOAT THEN "float" ELSE "int"

\* ---------------------------------------------------- the caller's allocator
FreeAddrs(hp) == {a \in Addrs : hp[a] = Freed}
\* allocator->alloc: the lowest free address, or NULL when the allocator fails
AllocAddr(hp) ==
    IF FreeAddrs(hp) = {} THEN NULL
    ELSE CHOOSE a \in FreeAddrs(hp) : \A b \in FreeAddrs(hp) : a <= b
Alloc(hp, addr, al, kind, ref) ==
    [hp EXCEPT ![addr] = [alloc |-> al, kind |-> kind, ref |-> ref]]
\* allocator al's free(ptr, ctx): releases the block, if al has it outstanding
FreeOk(hp, addr, al) == addr \in Addrs /\ hp[addr] # Freed /\ hp[addr].alloc = al
\* a block handed to an allocator that does not have it outstanding stays
\* outstanding with the allocator that produced it
Free(hp, addr, al) == IF FreeOk(hp, addr, al) THEN [hp EXCEPT ![addr] = Freed] ELSE hp
Outstanding(hp) == {a \in Addrs : hp[a] # Freed}

\* --------------------------------------------------------- the error channel
\* a slot shared by every thread, as a static without thread_local would be
set_last_error_shared(le, t, code) == [u \in DOMAIN le |-> code]
\* a slot that keeps the first error written to it
set_last_error_sticky(le, t, code) ==
    IF le[t] # NMSLIB_SUCCESS THEN le ELSE [le EXCEPT ![t] = code]
\* a slot only failures are written to
set_last_error_failures_only(le, t, code) ==
    IF code = NMSLIB_SUCCESS THEN le ELSE [le EXCEPT ![t] = code]
\* NMSLIBUtil::set_last_error: the calling thread's slot is overwritten
set_last_error(le, t, code) == [le EXCEPT ![t] = code]

\* ------------------------------------------------------------- ghost record
NoCall ==
    [op |-> "none", t |-> "none", status |-> NMSLIB_SUCCESS, h |-> "none",
     inst |-> {}, fault |-> "none", allocs |-> 0, engine |-> FALSE,
     arg |-> <<>>, out |-> <<>>]

Call(op, t, status, h, inst, fault, allocs, engine, arg, out) ==
    [op |-> op, t |-> t, status |-> status, h |-> h, inst |-> inst,
     fault |-> fault, allocs |-> allocs, engine |-> engine, arg |-> arg, out |-> out]

EmptyResult == [ids |-> <<>>, distances |-> <<>>, size |-> 0, capacity |-> 0]

Init ==
    /\ handle = NoHandle
    /\ created = <<>>
    /\ heap = [a \in Addrs |-> Freed]
    /\ borrows = {}
    /\ result = EmptyResult
    /\ last_error = [t \in Threads |-> NMSLIB_SUCCESS]
    /\ crashed = FALSE
    /\ lastCall = NoCall
    /\ disk = NoFile
    /\ batch = NoBatch

\* ------------------------------------------------------- nmslib_index_create
\* std::thread::hardware_concurrency() on the machine the library runs on
hardware_concurrency == 1

\* the object the placement new constructs in mem (constructor, lines 96-97)
NewIndex(mem, method, space_type, dt, dst, al, space) ==
    [addr |-> mem, space |-> space, index_ptr |-> NoIndex, data |-> <<>>,
     data_type |-> dt, dist_type |-> dst, method |-> method,
     space_type |-> space_type, allocator |-> al,
     thread_pool_size |-> hardware_concurrency]

\* the release of the handle block when CreateSpace returned nullptr (lines 133-134)
SpaceNullRelease_leak(hp, mem, al) == hp
SpaceNullRelease(hp, mem, al) == Free(hp, mem, al)

\* the arguments of a call: every pointer valid, or one that line 116 rejects
CreateArgs(names, dts, dists, als) ==
    [space : names, data_type : dts, dist_type : dists, allocator : als,
     ptrs_ok : {TRUE}]
    \cup [space : {"l2"}, data_type : {NMSLIB_DATATYPE_DENSE_VECTOR},
          dist_type : {NMSLIB_DISTTYPE_FLOAT}, allocator : {"A1"}, ptrs_ok : {FALSE}]

\* what the environment does during the call: the allocator returns NULL, or
\* CreateSpace of a known name returns the space, throws, or runs out of memory
CreateOutcomes == {"ok", "alloc_null", "throws", "bad_alloc"}

IndexCreate(t, a, env) ==
    /\ ~crashed
    /\ handle = NoHandle
    /\ UNCHANGED <<borrows, result, crashed, disk, batch>>
    /\ LET mem  == IF env = "alloc_null" THEN NULL ELSE AllocAddr(heap)
           hp1  == IF mem = NULL THEN heap
                   ELSE Alloc(heap, mem, a.allocator, "handle", NULL)
           inst == InstOf(a.dist_type)
           sp   == CreateSpace(inst, a.space)
           done(status, h, hp, allocs, engine, written) ==
               /\ handle' = h
               /\ created' = IF h = NoHandle THEN created
                             ELSE <<a.data_type, a.dist_type>>
               /\ heap' = hp
               /\ last_error' = set_last_error(last_error, t, status)
               /\ lastCall' = Call("index_create", t, status, "none",
                                   IF engine THEN {inst} ELSE {}, "none",
                                   allocs, engine, a,
                                   [written |-> written, mem |-> mem, env |-> env,
                                    before |-> Outstanding(heap)])
       IN  IF ~a.ptrs_ok
           THEN done(NMSLIB_ERROR_INVALID_ARGUMENT, NoHandle, heap, 0, FALSE, FALSE)
           ELSE IF mem = NULL
           THEN done(NMSLIB_ERROR_OUT_OF_MEMORY, NoHandle, heap, 1, FALSE, FALSE)
           ELSE IF a.dist_type \notin DistTypes
           THEN \* default: returns without releasing mem
                done(NMSLIB_ERROR_INVALID_ARGUMENT, NoHandle, hp1, 1, FALSE, FALSE)
           ELSE IF sp = NullSpace
           THEN done(NMSLIB_ERROR_SPACE_INCOMPATIBLE, NoHandle,
                     SpaceNullRelease(hp1, mem, a.allocator), 2, TRUE, FALSE)
           ELSE IF env = "throws"
           THEN \* catch (...): mem is not released
                done(NMSLIB_ERROR_RUNTIME, NoHandle, hp1, 1, TRUE, FALSE)
           ELSE IF env = "bad_alloc"
           THEN done(NMSLIB_ERROR_OUT_OF_MEMORY, NoHandle, hp1, 1, TRUE, FALSE)
           ELSE done(NMSLIB_SUCCESS,
                     NewIndex(mem, "hnsw", a.space, a.data_type, a.dist_type,
                              a.allocator, sp),
                     hp1, 1, TRUE, TRUE)

\* ----------------------------------------------- nmslib_get_last_error_detail
\* what the caller's allocator does during the call: it serves both strings,
\* or returns NULL for the message or for the file
DetailOutcomes == {"ok", "message_null", "file_null"}

\* NMSLIBUtil::dup_string (lines 47-53): the block allocated for the copy, NULL
\* when the allocator fails
dup_string(hp, fails) == IF fails THEN NULL ELSE AllocAddr(hp)

\* dp: is detail non-null; ap: is the allocator usable; al: the allocator
GetLastErrorDetail(t, dp, ap, al, env) ==
    /\ ~crashed
    /\ UNCHANGED <<handle, created, borrows, result, crashed, disk, batch>>
    /\ LET code == last_error[t]
           msg  == dup_string(heap, env = "message_null")
           hp1  == IF msg = NULL THEN heap ELSE Alloc(heap, msg, al, "string", NULL)
           file == dup_string(hp1, env = "file_null")
           hp2  == IF file = NULL THEN hp1 ELSE Alloc(hp1, file, al, "string", NULL)
           \* again: the thread's previous call was this function, succeeded
           \* and reported a failure
           prev == [t |-> lastCall.t, status |-> lastCall.status,
                    again |-> /\ lastCall.op = "get_last_error_detail"
                              /\ lastCall.t = t
                              /\ lastCall.status = NMSLIB_SUCCESS
                              /\ lastCall.out.code # NMSLIB_SUCCESS]
           done(status, hp, allocs, detail) ==
               /\ heap' = hp
               /\ last_error' = set_last_error(last_error, t, status)
               /\ lastCall' = Call("get_last_error_detail", t, status, "none", {},
                                   "none", allocs, FALSE,
                                   [detail |-> dp, allocator |-> ap, env |-> env,
                                    prev |-> prev],
                                   detail)
       IN  IF ~dp \/ ~ap
           THEN done(NMSLIB_ERROR_INVALID_ARGUMENT, heap, 0,
                     [code |-> Unwritten, message |-> NULL, file |-> NULL])
           ELSE IF msg = NULL
           THEN done(NMSLIB_ERROR_OUT_OF_MEMORY, heap, 1,
                     [code |-> code, message |-> NULL, file |-> NULL])
           ELSE IF file = NULL
           THEN done(NMSLIB_ERROR_OUT_OF_MEMORY, Free(hp1, msg, al), 3,
                     [code |-> code, message |-> msg, file |-> NULL])
           ELSE done(NMSLIB_SUCCESS, hp2, 2,
                     [code |-> code, message |-> msg, file |-> file])

\* --------------------------------------------------------- nmslib_free_string
\* sp: is str non-null (then str is the block at addr); ap: is the allocator usable
FreeString(t, sp, addr, ap) ==
    /\ ~crashed
    /\ heap[addr] # Freed
    /\ heap[addr].kind = "string"
    /\ UNCHANGED <<handle, created, borrows, result, crashed, disk, batch>>
    /\ IF ~sp \/ ~ap
       THEN /\ UNCHANGED heap
            /\ last_error' = set_last_error(last_error, t,
                                            NMSLIB_ERROR_INVALID_ARGUMENT)
            /\ lastCall' = Call("free_string", t, NoReturn, "none", {}, "none", 0,
                                FALSE, [str |-> sp, allocator |-> ap], <<>>)
       ELSE /\ heap' = Free(heap, addr, heap[addr].alloc)
            /\ UNCHANGED last_error
            /\ lastCall' = Call("free_string", t, NoReturn, "none", {}, "none", 1,
                                FALSE, [str |-> sp, allocator |-> ap], <<>>)

\* ------------------------------- nmslib_get_thread_pool_size, nmslib_data_qty
\* both return a size_t and write the error slot only for a null handle
GetThreadPoolSize(t, hp) ==
    /\ ~crashed
    /\ hp => handle # NoHandle
    /\ UNCHANGED <<handle, created, heap, borrows, result, crashed, disk, batch>>
    /\ last_error' = IF hp THEN last_error
                     ELSE set_last_error(last_error, t, NMSLIB_ERROR_INVALID_ARGUMENT)
    /\ lastCall' = Call("get_thread_pool_size", t, NoReturn,
                        IF hp THEN "live" ELSE "null", {}, "none", 0, FALSE, <<>>,
                        IF hp THEN handle.thread_pool_size ELSE hardware_concurrency)

DataQty(t, hp) ==
    /\ ~crashed
    /\ hp => handle # NoHandle
    /\ UNCHANGED <<handle, created, heap, borrows, result, crashed, disk, batch>>
    /\ last_error' = IF hp THEN last_error
                     ELSE set_last_error(last_error, t, NMSLIB_ERROR_INVALID_ARGUMENT)
    /\ lastCall' = Call("data_qty", t, NoReturn, IF hp THEN "live" ELSE "null",
                        {}, "none", 0, FALSE, <<>>,
                        IF hp THEN Len(handle.data) ELSE 0)

\* ------------------------------------------------------ nmslib_index_destroy
\* the allocator the handle block is returned through (line 176)
destroy_allocator_other(h) == CHOOSE al \in Allocators : al # h.allocator
destroy_allocator(h) == h.allocator

\* what lines 171-175 release: the points (delete datum), and with the
\* destructor the search structure and the space
destroy_release(h) ==
    [points |-> Len(h.data), structure |-> h.index_ptr # NoIndex,
     space |-> h.space # NullSpace]

IndexDestroy(t, h) ==
    /\ ~crashed
    /\ UNCHANGED <<borrows, result, crashed, last_error, created, disk, batch>>
    /\ IF h = "null"
       THEN /\ UNCHANGED <<handle, heap>>
            /\ lastCall' = Call("index_destroy", t, NoReturn, "null", {}, "none",
                                0, FALSE, <<>>, <<>>)
       ELSE /\ handle # NoHandle
            /\ handle' = NoHandle
            /\ heap' = Free(heap, handle.addr, destroy_allocator(handle))
            /\ lastCall' = Call("index_destroy", t, NoReturn, "live", {"float"},
                                "none", 1, FALSE, <<>>,
                                [freed |-> handle.addr,
                                 via |-> destroy_allocator(handle),
                                 released |-> destroy_release(handle)])

\* ------------------------------------------------------------------ points
\* A raw point is the sequence of its elements: the values of a dense or
\* uint8 vector, or the ids of a sparse vector (the values play no part).
DenseRows  == {<<1>>, <<2, 1>>}
SparseRows == {<<1>>, <<1, 2>>, <<2, 1>>, <<2, 2>>}
Uint8Rows  == {<<1>>, <<3>>}
\* the batches of 1..MaxBatch rows
Batches(rows) == UNION {[1..n -> rows] : n \in 1..MaxBatch}
\* the ids a caller passes for the elements of a batch
CallerIds(n) == [i \in 1..n |-> 10 + i]

Ptr(present) == IF present THEN 1 ELSE NULL

\* NMSLIBUtil::validate_common_inputs (lines 55-61)
validate_common_inputs(index, data, size, out) ==
    IF index = NULL THEN NMSLIB_ERROR_INVALID_ARGUMENT
    ELSE IF data = NULL THEN NMSLIB_ERROR_INVALID_ARGUMENT
    ELSE IF size = 0 THEN NMSLIB_ERROR_INVALID_ARGUMENT
    ELSE IF out = NULL THEN NMSLIB_ERROR_INVALID_ARGUMENT
    ELSE NMSLIB_SUCCESS
\* a call with three arguments: out takes its default, nullptr (line 55)
validate_common_inputs3(index, data, size) ==
    validate_common_inputs(index, data, size, NULL)

\* NMSLIBUtil::validate_sparse_elements (lines 63-74)
validate_sparse_elements(elements, elems, sorted) ==
    IF elements = NULL THEN NMSLIB_ERROR_INVALID_SPARSE_ELEMENT
    ELSE IF Len(elems) = 0 THEN NMSLIB_ERROR_INVALID_SPARSE_ELEMENT
    ELSE IF sorted /\ \E i \in 2..Len(elems) : elems[i] <= elems[i - 1]
    THEN NMSLIB_ERROR_INVALID_SPARSE_ELEMENT
    ELSE NMSLIB_SUCCESS

\* the dynamic_casts of the space: VectorSpace<dist_t>, SpaceSparseVector<float>,
\* SpaceL2SqrSift (a vector space of uint8 vectors)
IsVectorSpace(sp, inst) == sp.inst = inst /\ sp.kind \in {"vector", "sift"}
IsSparseSpace(sp) == sp.inst = "float" /\ sp.kind = "sparse"
IsSiftSpace(sp)   == sp.kind = "sift"

Object(id, elems) == [id |-> id, elems |-> elems]
Outcome(status, data) == [status |-> status, data |-> data]

\* position >= idx->data.size(): the position check of the operations that
\* take one (lines 1158, 1183, 1255, 1353, 1384, 1463)
position_rejected_beyond(h, position) == position > Len(h.data)
position_rejected(h, position) == position >= Len(h.data)

\* the switch of nmslib_add_data_point (lines 387-454): the status, and the
\* point collection after it
add_data_point_switch(h, raw, id) ==
    LET push == Outcome(NMSLIB_SUCCESS, Append(h.data, Object(id, raw)))
        bad  == Outcome(NMSLIB_ERROR_SPACE_INCOMPATIBLE, h.data)
        flt  == h.dist_type = NMSLIB_DISTTYPE_FLOAT
    IN  IF h.data_type = NMSLIB_DATATYPE_DENSE_VECTOR
        THEN IF IsVectorSpace(h.space, IF flt THEN "float" ELSE "int")
             THEN push ELSE bad
        ELSE IF h.data_type = NMSLIB_DATATYPE_SPARSE_VECTOR
        THEN IF ~flt THEN bad
             ELSE IF validate_sparse_elements(Ptr(TRUE), raw, TRUE) # NMSLIB_SUCCESS
             THEN Outcome(NMSLIB_ERROR_INVALID_SPARSE_ELEMENT, h.data)
             ELSE IF IsSparseSpace(h.space) THEN push ELSE bad
        ELSE IF h.data_type = NMSLIB_DATATYPE_DENSE_UINT8_VECTOR
        THEN IF flt /\ IsSiftSpace(h.space) THEN push ELSE bad
        ELSE IF h.data_type = NMSLIB_DATATYPE_OBJECT_AS_STRING
        THEN IF flt THEN push ELSE bad
        ELSE bad

\* ------------------------------------------------------ nmslib_add_data_point
\* hp: is the handle argument the live handle or NULL; dp: is data non-null
AddDataPoint(t, hp, dp, raw, id) ==
    /\ ~crashed
    /\ hp => handle # NoHandle
    /\ UNCHANGED <<created, heap, borrows, result, crashed, disk, batch>>
    /\ LET err == validate_common_inputs3(Ptr(hp), Ptr(dp), Len(raw))
           sw  == add_data_point_switch(handle, raw, id)
           st  == IF err # NMSLIB_SUCCESS THEN err ELSE sw.status
       IN  /\ handle' = IF err # NMSLIB_SUCCESS THEN handle
                        ELSE [handle EXCEPT !.data = sw.data]
           /\ last_error' = set_last_error(last_error, t, st)
           /\ lastCall' = Call("add_data_point", t, st, IF hp THEN "live" ELSE "null",
                               IF err = NMSLIB_SUCCESS THEN {"float"} ELSE {}, "none",
                               0, FALSE,
                               [data |-> dp, raw |-> raw, id |-> id,
                                before |-> IF hp THEN handle.data ELSE <<>>], <<>>)

\* ------------------------------------------ nmslib_add_data_point_batch_uint8
\* the loop of lines 565-589; the engine's CreateObjFromUint8Vect throws at
\* element fail_at (0: at none)
RECURSIVE batch_uint8_loop_rollback(_, _, _, _, _)
batch_uint8_loop_rollback(h, rows, ids, i, fail_at) ==
    LET undo == Outcome(NMSLIB_ERROR_RUNTIME,
                        SubSeq(h.data, 1, Len(h.data) - (i - 1)))
    IN  IF i > Len(rows) THEN Outcome(NMSLIB_SUCCESS, h.data)
        ELSE IF h.dist_type # NMSLIB_DISTTYPE_FLOAT \/ ~IsSiftSpace(h.space)
        THEN Outcome(NMSLIB_ERROR_SPACE_INCOMPATIBLE, h.data)
        ELSE IF i = fail_at THEN undo
        ELSE batch_uint8_loop_rollback(
                 [h EXCEPT !.data = Append(@, Object(ids[i], rows[i]))],
                 rows, ids, i + 1, fail_at)

RECURSIVE batch_uint8_loop(_, _, _, _, _)
batch_uint8_loop(h, rows, ids, i, fail_at) ==
    IF i > Len(rows) THEN Outcome(NMSLIB_SUCCESS, h.data)
    ELSE IF h.dist_type # NMSLIB_DISTTYPE_FLOAT \/ ~IsSiftSpace(h.space)
    THEN Outcome(NMSLIB_ERROR_SPACE_INCOMPATIBLE, h.data)
    ELSE IF i = fail_at THEN Outcome(NMSLIB_ERROR_RUNTIME, h.data)
    ELSE batch_uint8_loop([h EXCEPT !.data = Append(@, Object(ids[i], rows[i]))],
                          rows, ids, i + 1, fail_at)

AddDataPointBatchUint8(t, hp, rows, ids_given, fail_at) ==
    /\ ~crashed
    /\ hp => handle # NoHandle
    /\ hp => Len(handle.data) + Len(rows) <= MaxData
    /\ \A i, j \in 1..Len(rows) : Len(rows[i]) = Len(rows[j])
    /\ UNCHANGED <<created, heap, borrows, result, crashed, disk, batch>>
    /\ LET args_bad == ~hp \/ Len(rows) = 0 \/ Len(rows[1]) = 0 \/ ~ids_given
           out == IF args_bad THEN Outcome(NMSLIB_ERROR_INVALID_ARGUMENT, <<>>)
                  ELSE IF handle.data_type # NMSLIB_DATATYPE_DENSE_UINT8_VECTOR
                  THEN Outcome(NMSLIB_ERROR_SPACE_INCOMPATIBLE, handle.data)
                  ELSE batch_uint8_loop(handle, rows, CallerIds(Len(rows)), 1, fail_at)
       IN  /\ handle' = IF args_bad THEN handle ELSE [handle EXCEPT !.data = out.data]
           /\ last_error' = set_last_error(last_error, t, out.status)
           /\ lastCall' = Call("add_data_point_batch_uint8", t, out.status,
                               IF hp THEN "live" ELSE "null",
                               IF args_bad THEN {} ELSE {"float"}, "none", 0, FALSE,
                               [rows |-> rows, ids_given |-> ids_given,
                                fail_at |-> fail_at,
                                before |-> IF hp THEN handle.data ELSE <<>>], <<>>)

\* ------------------------------------------------ nmslib_add_data_point_batch
\* one element of the loop of lines 480-536: the status it returns early with,
\* or SUCCESS when the object is pushed
add_data_point_batch_element(h, raw, ne_given) ==
    LET flt == h.dist_type = NMSLIB_DISTTYPE_FLOAT
    IN  IF h.data_type = NMSLIB_DATATYPE_DENSE_VECTOR
        THEN IF IsVectorSpace(h.space, IF flt THEN "float" ELSE "int")
             THEN NMSLIB_SUCCESS ELSE NMSLIB_ERROR_SPACE_INCOMPATIBLE
        ELSE IF h.data_type = NMSLIB_DATATYPE_SPARSE_VECTOR
        THEN IF ~flt THEN NMSLIB_ERROR_SPACE_INCOMPATIBLE
             ELSE IF ~ne_given THEN NMSLIB_ERROR_INVALID_SPARSE_ELEMENT
             ELSE IF validate_sparse_elements(Ptr(TRUE), raw, TRUE) # NMSLIB_SUCCESS
             THEN NMSLIB_ERROR_INVALID_SPARSE_ELEMENT
             ELSE IF IsSparseSpace(h.space) THEN NMSLIB_SUCCESS
             ELSE NMSLIB_ERROR_SPACE_INCOMPATIBLE
        ELSE NMSLIB_ERROR_SPACE_INCOMPATIBLE

\* the loop of lines 480-536; the engine's CreateObjFromVect throws at element
\* fail_at (0: at none)
RECURSIVE add_data_point_batch_loop(_, _, _, _, _, _)
add_data_point_batch_loop(h, rows, ids_given, ne_given, i, fail_at) ==
    IF i > Len(rows) THEN Outcome(NMSLIB_SUCCESS, h.data)
    ELSE LET st == add_data_point_batch_element(h, rows[i], ne_given)
             id == IF ids_given THEN CallerIds(Len(rows))[i] ELSE Len(h.data)
         IN  IF st # NMSLIB_SUCCESS THEN Outcome(st, h.data)
             ELSE IF i = fail_at THEN Outcome(NMSLIB_ERROR_RUNTIME, h.data)
             ELSE add_data_point_batch_loop(
                      [h EXCEPT !.data = Append(@, Object(id, rows[i]))],
                      rows, ids_given, ne_given, i + 1, fail_at)

\* dp: is data non-null
AddDataPointBatch(t, hp, dp, rows, ids_given, ne_given, fail_at) ==
    /\ ~crashed
    /\ hp => handle # NoHandle
    /\ hp => Len(handle.data) + Len(rows) <= MaxData
    /\ UNCHANGED <<created, heap, borrows, result, crashed, disk, batch>>
    /\ LET err == validate_common_inputs3(Ptr(hp), Ptr(dp), Len(rows))
           out == IF err # NMSLIB_SUCCESS THEN Outcome(err, <<>>)
                  ELSE add_data_point_batch_loop(handle, rows, ids_given,
                                                 ne_given, 1, fail_at)
       IN  /\ handle' = IF err # NMSLIB_SUCCESS THEN handle
                        ELSE [handle EXCEPT !.data = out.data]
           /\ last_error' = set_last_error(last_error, t, out.status)
           /\ lastCall' = Call("add_data_point_batch", t, out.status,
                               IF hp THEN "live" ELSE "null",
                               IF err = NMSLIB_SUCCESS THEN {"float"} ELSE {}, "none",
                               0, FALSE,
                               [rows |-> rows, ids_given |-> ids_given,
                                fail_at |-> fail_at,
                                before |-> IF hp THEN handle.data ELSE <<>>], <<>>)

\* ----------------------------------------- nmslib_add_data_point_batch_string
\* the loop of lines 617-620; the space's CreateObjFromStr throws at element
\* fail_at (0: at none)
RECURSIVE batch_string_loop(_, _, _, _, _)
batch_string_loop(h, rows, ids_given, i, fail_at) ==
    IF i > Len(rows) THEN Outcome(NMSLIB_SUCCESS, h.data)
    ELSE IF i = fail_at THEN Outcome(NMSLIB_ERROR_RUNTIME, h.data)
    ELSE LET id == IF ids_given THEN CallerIds(Len(rows))[i] ELSE Len(h.data)
         IN  batch_string_loop([h EXCEPT !.data = Append(@, Object(id, rows[i]))],
                               rows, ids_given, i + 1, fail_at)

AddDataPointBatchString(t, hp, dp, rows, ids_given, fail_at) ==
    /\ ~crashed
    /\ hp => handle # NoHandle
    /\ hp => Len(handle.data) + Len(rows) <= MaxData
    /\ UNCHANGED <<created, heap, borrows, result, crashed, disk, batch>>
    /\ LET err == validate_common_inputs3(Ptr(hp), Ptr(dp), Len(rows))
           out == IF err # NMSLIB_SUCCESS THEN Outcome(err, <<>>)
                  ELSE IF \/ handle.data_type # NMSLIB_DATATYPE_OBJECT_AS_STRING
                          \/ handle.dist_type # NMSLIB_DISTTYPE_FLOAT
                  THEN Outcome(NMSLIB_ERROR_SPACE_INCOMPATIBLE, handle.data)
                  ELSE batch_string_loop(handle, rows, ids_given, 1, fail_at)
       IN  /\ handle' = IF err # NMSLIB_SUCCESS THEN handle
                        ELSE [handle EXCEPT !.data = out.data]
           /\ last_error' = set_last_error(last_error, t, out.status)
           /\ lastCall' = Call("add_data_point_batch_string", t, out.status,
                               IF hp THEN "live" ELSE "null",
                               IF err = NMSLIB_SUCCESS THEN {"float"} ELSE {}, "none",
                               0, FALSE,
                               [rows |-> rows, ids_given |-> ids_given,
                                fail_at |-> fail_at,
                                before |-> IF hp THEN handle.data ELSE <<>>], <<>>)

\* ---------------------------------------- nmslib_add_data_point_batch_pointers
\* Declared in src/nmslib_c.h (lines 602-610) and defined nowhere under src/:
\* modelled from the specification's batch insert (array-of-pointers buffer):
\* each element is encoded by the handle's point kind, a sparse element whose
\* ids are not strictly increasing is rejected, a NULL ids array gives each
\* point its positional index, and the call stops at the first failing
\* element, keeping the points appended before it.
batch_pointers_encode(h, raw) ==
    IF h.dist_type # NMSLIB_DISTTYPE_FLOAT THEN NMSLIB_ERROR_SPACE_INCOMPATIBLE
    ELSE IF h.data_type = NMSLIB_DATATYPE_DENSE_VECTOR
    THEN IF IsVectorSpace(h.space, "float") THEN NMSLIB_SUCCESS
         ELSE NMSLIB_ERROR_SPACE_INCOMPATIBLE
    ELSE IF h.data_type = NMSLIB_DATATYPE_SPARSE_VECTOR
    THEN IF validate_sparse_elements(Ptr(TRUE), raw, TRUE) # NMSLIB_SUCCESS
         THEN NMSLIB_ERROR_INVALID_SPARSE_ELEMENT
         ELSE IF IsSparseSpace(h.space) THEN NMSLIB_SUCCESS
         ELSE NMSLIB_ERROR_SPACE_INCOMPATIBLE
    ELSE IF h.data_type = NMSLIB_DATATYPE_DENSE_UINT8_VECTOR
    THEN IF IsSiftSpace(h.space) THEN NMSLIB_SUCCESS
         ELSE NMSLIB_ERROR_SPACE_INCOMPATIBLE
    ELSE NMSLIB_ERROR_SPACE_INCOMPATIBLE

RECURSIVE batch_pointers_loop(_, _, _, _)
batch_pointers_loop(h, rows, ids_given, i) ==
    IF i > Len(rows) THEN Outcome(NMSLIB_SUCCESS, h.data)
    ELSE LET st == batch_pointers_encode(h, rows[i])
             id == IF ids_given THEN CallerIds(Len(rows))[i] ELSE Len(h.data)
         IN  IF st # NMSLIB_SUCCESS THEN Outcome(st, h.data)
             ELSE batch_pointers_loop(
                      [h EXCEPT !.data = Append(@, Object(id, rows[i]))],
                      rows, ids_given, i + 1)

AddDataPointBatchPointers(t, hp, rows, ids_given) ==
    /\ ~crashed
    /\ hp => handle # NoHandle
    /\ hp => Len(handle.data) + Len(rows) <= MaxData
    /\ UNCHANGED <<created, heap, borrows, result, crashed, disk, batch>>
    /\ LET out == IF ~hp THEN Outcome(NMSLIB_ERROR_NULL_POINTER, <<>>)
                  ELSE batch_pointers_loop(handle, rows, ids_given, 1)
       IN  /\ handle' = IF ~hp THEN handle ELSE [handle EXCEPT !.data = out.data]
           /\ last_error' = set_last_error(last_error, t, out.status)
           /\ lastCall' = Call("add_data_point_batch_pointers", t, out.status,
                               IF hp THEN "live" ELSE "null", {}, "none", 0, FALSE,
                               [rows |-> rows, ids_given |-> ids_given,
                                before |-> IF hp THEN handle.data ELSE <<>>], <<>>)

\* -------------------------------------------------------- nmslib_create_index
\* the structure MethodFactoryRegistry<float>::CreateMethod returns over the
\* points the handle holds; complete once CreateIndex has returned
Structure(inst, n, complete) == [inst |-> inst, over |-> n, complete |-> complete]

\* what the engine does during the build: CreateMethod throws (index_ptr is
\* not reset), or CreateIndex throws or runs out of memory (index_ptr already
\* holds the new structure)
BuildOutcomes == {"ok", "method_throws", "create_throws", "create_bad_alloc"}

\* the handle after lines 189-192
build_index_keep(h, env) ==
    IF env = "method_throws" \/ h.index_ptr # NoIndex THEN h
    ELSE [h EXCEPT !.index_ptr = Structure("float", Len(h.data), env = "ok")]
build_index(h, env) ==
    IF env = "method_throws" THEN h
    ELSE [h EXCEPT !.index_ptr = Structure("float", Len(h.data), env = "ok")]

\* the structure index_ptr.reset deletes at line 191: the one the handle held,
\* unless CreateMethod threw before the reset
build_released(h, env) == IF env = "method_throws" THEN NoIndex ELSE h.index_ptr

\* a build without its catch clauses: the exception leaves the call
build_status_uncaught(env) == IF env = "ok" THEN NMSLIB_SUCCESS ELSE NoReturn
build_status(env) ==
    IF env = "ok" THEN NMSLIB_SUCCESS
    ELSE IF env = "create_bad_alloc" THEN NMSLIB_ERROR_OUT_OF_MEMORY
    ELSE NMSLIB_ERROR_INDEX_BUILD_FAILED

\* a handle of the integer instantiation read through the float one
\* (reinterpret_cast<nmslib_internal_index_t<float>*>)
CastFault(h) ==
    IF h.dist_type = NMSLIB_DISTTYPE_INT THEN "type_confusion" ELSE "none"

CreateIndex(t, hp, env) ==
    /\ ~crashed
    /\ hp => handle # NoHandle
    /\ UNCHANGED <<created, heap, borrows, result, crashed, disk, batch>>
    /\ LET st == IF ~hp THEN NMSLIB_ERROR_INVALID_ARGUMENT ELSE build_status(env)
       IN  /\ handle' = IF ~hp THEN handle ELSE build_index(handle, env)
           /\ last_error' = set_last_error(last_error, t, st)
           /\ lastCall' = Call("create_index", t, st, IF hp THEN "live" ELSE "null",
                               IF hp THEN {"float"} ELSE {},
                               IF hp THEN CastFault(handle) ELSE "none",
                               0, hp, [env |-> env],
                               IF ~hp THEN <<>>
                               ELSE [before |-> handle.index_ptr,
                                     released |-> build_released(handle, env)])

\* --------------------------------------------------------- nmslib_reset_index
\* lines 210-215: the points are deleted and the structure is released
reset_index_retag(h) ==
    [h EXCEPT !.data = <<>>, !.index_ptr = NoIndex,
              !.data_type = NMSLIB_DATATYPE_DENSE_VECTOR]
reset_index_keep_structure(h) == [h EXCEPT !.data = <<>>]
\* a reset that also puts the thread-pool size back to the creation default
reset_index_default_pool(h) ==
    [h EXCEPT !.data = <<>>, !.index_ptr = NoIndex,
              !.thread_pool_size = hardware_concurrency]
reset_index(h) == [h EXCEPT !.data = <<>>, !.index_ptr = NoIndex]

ResetIndex(t, hp) ==
    /\ ~crashed
    /\ hp => handle # NoHandle
    /\ UNCHANGED <<created, heap, borrows, result, crashed, disk, batch>>
    /\ LET st == IF ~hp THEN NMSLIB_ERROR_INVALID_ARGUMENT ELSE NMSLIB_SUCCESS
       IN  /\ handle' = IF ~hp THEN handle ELSE reset_index(handle)
           /\ last_error' = set_last_error(last_error, t, st)
           /\ lastCall' = Call("reset_index", t, st, IF hp THEN "live" ELSE "null",
                               IF hp THEN {"float"} ELSE {},
                               "none", 0, FALSE,
                               IF ~hp THEN <<>>
                               ELSE [count |-> Len(handle.data),
                                     built |-> handle.index_ptr # NoIndex],
                               <<>>)

\* ---------------------------------------------------------- nmslib_save_index
\* the engine's WriteObjectVectorBinData or SaveIndex may throw
\* what lines 1527-1531 leave at the path: the structure's image and, with
\* save_data, the points in <path>.dat
save_image(h, save_data) ==
    [structure |-> h.index_ptr, has_data |-> save_data,
     data |-> IF save_data THEN h.data ELSE <<>>]

SaveIndex(t, hp, path_ok, save_data, throws) ==
    /\ ~crashed
    /\ hp => handle # NoHandle
    /\ UNCHANGED <<handle, created, heap, borrows, result, crashed, batch>>
    /\ LET st == IF ~hp \/ ~path_ok THEN NMSLIB_ERROR_INVALID_ARGUMENT
                 ELSE IF handle.index_ptr = NoIndex
                 THEN NMSLIB_ERROR_INVALID_ARGUMENT
                 ELSE IF throws THEN NMSLIB_ERROR_DATA_IO_FAILED
                 ELSE NMSLIB_SUCCESS
           eng == hp /\ path_ok /\ handle.index_ptr # NoIndex
       IN  /\ disk' = IF st = NMSLIB_SUCCESS
                      THEN save_image(handle, save_data)
                      ELSE disk
           /\ last_error' = set_last_error(last_error, t, st)
           /\ lastCall' = Call("save_index", t, st, IF hp THEN "live" ELSE "null",
                               IF hp /\ path_ok THEN {"float"} ELSE {},
                               IF eng THEN CastFault(handle) ELSE "none",
                               0, eng,
                               [save_data |-> save_data, throws |-> throws], <<>>)

\* ---------------------------------------------------------- nmslib_load_index
\* the arguments of a load: the pointers valid, or one that line 1548 rejects
LoadArgs(dts, dists, als) ==
    [data_type : dts, dist_type : dists, allocator : als, ptrs_ok : {TRUE}]
    \cup [data_type : {NMSLIB_DATATYPE_DENSE_VECTOR},
          dist_type : {NMSLIB_DISTTYPE_FLOAT}, allocator : {"A1"}, ptrs_ok : {FALSE}]

\* what the environment does during a load: the allocator returns NULL; the
\* dereference of the null space ends the process; or CreateMethod, called
\* with the empty method name, throws or runs out of memory
LoadOutcomes == {"alloc_null", "crash", "method_throws", "bad_alloc"}

\* lines 1559-1584 on the object the placement new constructed: the status,
\* the handle and whether the process goes on
load_body(h, load_data, env, image) ==
    IF h.space = NullSpace
    THEN \* *idx->space on the null unique_ptr the constructor left
         IF env = "crash"
         THEN [status |-> NoReturn, handle |-> NoHandle, dead |-> TRUE]
         ELSE IF env = "bad_alloc"
         THEN [status |-> NMSLIB_ERROR_OUT_OF_MEMORY, handle |-> NoHandle,
               dead |-> FALSE]
         ELSE [status |-> NMSLIB_ERROR_DATA_IO_FAILED, handle |-> NoHandle,
               dead |-> FALSE]
    ELSE IF image = NoFile
    THEN [status |-> NMSLIB_ERROR_DATA_IO_FAILED, handle |-> NoHandle,
          dead |-> FALSE]
    ELSE [status |-> NMSLIB_SUCCESS,
          handle |-> [h EXCEPT !.index_ptr = image.structure,
                               !.data = IF load_data THEN image.data ELSE @],
          dead |-> FALSE]

LoadIndex(t, a, load_data, env) ==
    /\ ~crashed
    /\ handle = NoHandle
    /\ UNCHANGED <<borrows, result, disk, batch>>
    /\ LET mem == IF env = "alloc_null" THEN NULL ELSE AllocAddr(heap)
           hp1 == IF mem = NULL THEN heap
                  ELSE Alloc(heap, mem, a.allocator, "handle", NULL)
           b   == load_body(NewIndex(mem, "", "", a.data_type, a.dist_type,
                                     a.allocator, NullSpace),
                            load_data, env, disk)
           done(status, h, hp, dead, fault, eng) ==
               /\ handle' = h
               /\ created' = IF h = NoHandle THEN created
                             ELSE <<a.data_type, a.dist_type>>
               /\ heap' = hp
               /\ crashed' = dead
               /\ last_error' = IF dead THEN last_error
                                ELSE set_last_error(last_error, t, status)
               /\ lastCall' = Call("load_index", t, status, "none",
                                   IF eng THEN {InstOf(a.dist_type)} ELSE {},
                                   fault, IF a.ptrs_ok THEN 1 ELSE 0, eng,
                                   [data_type |-> a.data_type,
                                    dist_type |-> a.dist_type,
                                    ptrs_ok |-> a.ptrs_ok,
                                    load_data |-> load_data, env |-> env],
                                   [written |-> h # NoHandle, mem |-> mem,
                                    before |-> Outstanding(heap)])
       IN  IF ~a.ptrs_ok
           THEN done(NMSLIB_ERROR_INVALID_ARGUMENT, NoHandle, heap, FALSE,
                     "none", FALSE)
           ELSE IF mem = NULL
           THEN done(NMSLIB_ERROR_OUT_OF_MEMORY, NoHandle, heap, FALSE,
                     "none", FALSE)
           ELSE done(b.status, b.handle, hp1, b.dead, "null_deref", TRUE)

\* ------------------------------------------------ nmslib_set_thread_pool_size
MaxThreadPoolSize == 1024

SetThreadPoolSize(t, hp, size) ==
    /\ ~crashed
    /\ hp => handle # NoHandle
    /\ UNCHANGED <<created, heap, borrows, result, crashed, disk, batch>>
    /\ LET bad == ~hp \/ size = 0 \/ size > MaxThreadPoolSize
           st  == IF bad THEN NMSLIB_ERROR_INVALID_ARGUMENT ELSE NMSLIB_SUCCESS
       IN  /\ handle' = IF bad THEN handle
                        ELSE [handle EXCEPT !.thread_pool_size = size]
           /\ last_error' = set_last_error(last_error, t, st)
           /\ lastCall' = Call("set_thread_pool_size", t, st,
                               IF hp THEN "live" ELSE "null",
                               IF bad THEN {} ELSE {"float"}, "none", 0, FALSE,
                               [size |-> size], <<>>)

\* ------------------------------------------------------- the engine's Search
RECURSIVE SumSeq(_)
SumSeq(s) == IF s = <<>> THEN 0 ELSE Head(s) + SumSeq(Tail(s))
Abs(x) == IF x < 0 THEN 0 - x ELSE x
\* the space's distance between two points
Distance(p, q) == Abs(SumSeq(p) - SumSeq(q))

\* the points a structure was built over: the first `over` points of the
\* handle (points are only appended between a build and the next reset)
BuiltOver(h) == SubSeq(h.data, 1, h.index_ptr.over)

\* the handle after idx->index_ptr->Search(&query, -1): Search is a const
\* member of the structure and the query object owns its result queue, so the
\* structure, the space and the points are as they were
Search_consuming(h) == [h EXCEPT !.index_ptr = NoIndex]
Search(h) == h

Entries(pts, q) ==
    {[id |-> pts[i].id, dist |-> Distance(pts[i].elems, q), pos |-> i] :
        i \in 1..Len(pts)}

RECURSIVE ClosestFirst(_)
ClosestFirst(S) ==
    IF S = {} THEN <<>>
    ELSE LET m == CHOOSE e \in S : \A f \in S :
                      e.dist < f.dist \/ (e.dist = f.dist /\ e.pos <= f.pos)
         IN  <<m>> \o ClosestFirst(S \ {m})

Reverse(s) == [i \in 1..Len(s) |-> s[Len(s) + 1 - i]]
Min(a, b) == IF a < b THEN a ELSE b

\* KNNQuery + Search: the queue holds the k nearest points; the order in which
\* Pop removes them is the engine's
KnnQueue(pts, q, k, pop) ==
    LET all  == ClosestFirst(Entries(pts, q))
        kept == SubSeq(all, 1, Min(k, Len(all)))
    IN  IF pop = "closest_first" THEN kept ELSE Reverse(kept)

\* RangeQuery + Search: the points within the radius, in the engine's order
RECURSIVE InOrder(_, _)
InOrder(S, n) ==
    IF n = 0 THEN <<>>
    ELSE LET here == {e \in S : e.pos = n}
         IN  InOrder(S, n - 1) \o (IF here = {} THEN <<>> ELSE <<CHOOSE e \in here : TRUE>>)
RangeFound(pts, q, radius) ==
    InOrder({e \in Entries(pts, q) : e.dist <= radius}, Len(pts))

\* ------------------------------------------------- the caller's result buffer
\* a nmslib_result_t argument: NULL, one without arrays, or arrays of
\* `capacity` slots nothing was written to and a size left by an earlier use
StaleSize == MaxCap + 1
ResultArgs ==
    {[present |-> FALSE, arrays |-> TRUE, capacity |-> 0],
     [present |-> TRUE, arrays |-> FALSE, capacity |-> MaxCap]}
    \cup [present : {TRUE}, arrays : {TRUE}, capacity : 0..MaxCap]
Buffer(r) ==
    [ids |-> [i \in 1..r.capacity |-> Unwritten],
     distances |-> [i \in 1..r.capacity |-> Unwritten],
     size |-> StaleSize, capacity |-> r.capacity]

Filled(status, res) == [status |-> status, result |-> res]

\* lines 754-767: the size check and the copy loop of the k-NN fill (the range
\* fill's, lines 1072-1081, reads its result vectors in the same way)
knn_copy_size_capacity(res, queue) ==
    IF Len(queue) > res.capacity
    THEN Filled(NMSLIB_ERROR_BUFFER_TOO_SMALL, res)
    ELSE Filled(NMSLIB_SUCCESS,
                [res EXCEPT
                   !.size = res.capacity,
                   !.ids = [i \in 1..res.capacity |->
                              IF i <= Len(queue) THEN queue[i].id ELSE @[i]],
                   !.distances = [i \in 1..res.capacity |->
                              IF i <= Len(queue) THEN queue[i].dist ELSE @[i]]])
knn_copy(res, queue) ==
    IF Len(queue) > res.capacity
    THEN Filled(NMSLIB_ERROR_BUFFER_TOO_SMALL, res)
    ELSE Filled(NMSLIB_SUCCESS,
                [res EXCEPT
                   !.size = Len(queue),
                   !.ids = [i \in 1..res.capacity |->
                              IF i <= Len(queue) THEN queue[i].id ELSE @[i]],
                   !.distances = [i \in 1..res.capacity |->
                              IF i <= Len(queue) THEN queue[i].dist ELSE @[i]]])

\* the object-construction branch of a fill (lines 743-751, 769-776, 794-809):
\* the status it returns early with, or SUCCESS when the search is reached
fill_encode(h, q) ==
    LET flt == h.dist_type = NMSLIB_DISTTYPE_FLOAT
    IN  IF h.data_type = NMSLIB_DATATYPE_DENSE_VECTOR
        THEN IF IsVectorSpace(h.space, IF flt THEN "float" ELSE "int")
             THEN NMSLIB_SUCCESS ELSE NMSLIB_ERROR_SPACE_INCOMPATIBLE
        ELSE IF h.data_type = NMSLIB_DATATYPE_SPARSE_VECTOR
        THEN IF ~flt THEN NMSLIB_ERROR_SPACE_INCOMPATIBLE
             ELSE IF validate_sparse_elements(Ptr(TRUE), q, TRUE) # NMSLIB_SUCCESS
             THEN NMSLIB_ERROR_INVALID_SPARSE_ELEMENT
             ELSE IF IsSparseSpace(h.space) THEN NMSLIB_SUCCESS
             ELSE NMSLIB_ERROR_SPACE_INCOMPATIBLE
        ELSE NMSLIB_ERROR_SPACE_INCOMPATIBLE

\* the instantiation whose space and index_ptr a fill uses (idx or idx_int)
fill_inst(h) == IF h.dist_type = NMSLIB_DISTTYPE_FLOAT THEN "float" ELSE "int"

\* What the environment does during a query: the queue pops closest first or
\* closest last, the engine throws while building the query object or while
\* searching, or (only when index_ptr is null) the build turns the null
\* dereference into a caught fault instead of ending the process.
QueryEnvs == {"closest_first", "closest_last", "obj_throws", "search_throws",
              "fault_caught"}

\* the queries of a data type, and the k of a k-NN query
Ks == 0..MaxK

\* common tail of the two fills: from the search structure to the return
\* found: the neighbours in the order the copy loop reads them
fill_search(t, op, q, arg, r, env, found, caught) ==
    LET h    == handle
        enc  == fill_encode(h, q)
        inst == fill_inst(h)
        ret(status, res, fault, eng, dead, hd) ==
            /\ result' = res
            /\ handle' = hd
            /\ crashed' = dead
            /\ last_error' = IF dead THEN last_error
                             ELSE set_last_error(last_error, t, status)
            /\ lastCall' = Call(op, t, status, "live",
                                IF eng THEN {inst} ELSE {}, fault, 0, eng, arg, <<>>)
    IN  IF enc # NMSLIB_SUCCESS THEN ret(enc, Buffer(r), "none", FALSE, FALSE, h)
        ELSE IF env = "obj_throws"
        THEN ret(caught, Buffer(r), "none", TRUE, FALSE, h)
        ELSE IF h.index_ptr = NoIndex
        THEN \* idx->index_ptr->Search on a null unique_ptr
             IF env = "fault_caught"
             THEN ret(caught, Buffer(r), "null_deref", TRUE, FALSE, h)
             ELSE ret(NoReturn, Buffer(r), "null_deref", TRUE, TRUE, h)
        ELSE IF env = "search_throws"
        THEN ret(caught, Buffer(r), "none", TRUE, FALSE, h)
        ELSE LET f == knn_copy(Buffer(r), found)
             IN  ret(f.status, f.result,
                     IF inst # h.index_ptr.inst THEN "type_confusion" ELSE "none",
                     TRUE, FALSE, Search(h))

\* ------------------------------------------------------ nmslib_knn_query_fill
\* line 737: the result argument the call rejects before its try block
knn_result_rejected_arrays_only(r, k) == ~r.arrays
knn_result_rejected(r, k) == ~r.arrays \/ r.capacity < k

KnnQueryFill(t, hp, qp, q, k, r, env) ==
    /\ ~crashed
    /\ hp => handle # NoHandle
    /\ env = "fault_caught" => hp /\ handle.index_ptr = NoIndex
    /\ UNCHANGED <<created, heap, borrows, disk, batch>>
    /\ LET err == validate_common_inputs(Ptr(hp), Ptr(qp), Len(q), Ptr(r.present))
           arg == [query |-> q, k |-> k, r |-> r, env |-> env]
           early(status) ==
               /\ result' = IF r.present THEN Buffer(r) ELSE EmptyResult
               /\ UNCHANGED <<crashed, handle>>
               /\ last_error' = set_last_error(last_error, t, status)
               /\ lastCall' = Call("knn_query_fill", t, status,
                                   IF hp THEN "live" ELSE "null", {}, "none",
                                   0, FALSE, arg, <<>>)
       IN  IF err # NMSLIB_SUCCESS THEN early(err)
           ELSE IF knn_result_rejected(r, k)
           THEN early(NMSLIB_ERROR_INVALID_ARGUMENT)
           ELSE fill_search(t, "knn_query_fill", q, arg, r, env,
                            IF handle.index_ptr = NoIndex THEN <<>>
                            ELSE KnnQueue(BuiltOver(handle), q, k,
                                          IF env = "closest_last" THEN env
                                          ELSE "closest_first"),
                            NMSLIB_ERROR_QUERY_EXECUTION_FAILED)

\* ---------------------------------------------------- nmslib_range_query_fill
Radii == 0..MaxRadius

RangeQueryFill(t, hp, qp, q, radius, r, env) ==
    /\ ~crashed
    /\ hp => handle # NoHandle
    /\ env # "closest_last"
    /\ env = "fault_caught" => hp /\ handle.index_ptr = NoIndex
    /\ UNCHANGED <<created, heap, borrows, disk, batch>>
    /\ LET err == validate_common_inputs(Ptr(hp), Ptr(qp), Len(q), Ptr(r.present))
           arg == [query |-> q, radius |-> radius, r |-> r, env |-> env]
           early(status) ==
               /\ result' = IF r.present THEN Buffer(r) ELSE EmptyResult
               /\ UNCHANGED <<crashed, handle>>
               /\ last_error' = set_last_error(last_error, t, status)
               /\ lastCall' = Call("range_query_fill", t, status,
                                   IF hp THEN "live" ELSE "null", {}, "none",
                                   0, FALSE, arg, <<>>)
       IN  IF err # NMSLIB_SUCCESS THEN early(err)
           ELSE IF ~r.arrays \/ r.capacity = 0
           THEN early(NMSLIB_ERROR_INVALID_ARGUMENT)
           ELSE fill_search(t, "range_query_fill", q, arg, r, env,
                            IF handle.index_ptr = NoIndex THEN <<>>
                            ELSE RangeFound(BuiltOver(handle), q, radius),
                            NMSLIB_ERROR_QUERY_EXECUTION_FAILED)

\* -------------------------------------------------- nmslib_knn_query_get_size
\* the object-construction branch (lines 647-707): the status it returns early
\* with, or SUCCESS when the search is reached; ne is num_elements
get_size_encode(h, q, ne) ==
    LET flt == h.dist_type = NMSLIB_DISTTYPE_FLOAT
    IN  IF h.data_type = NMSLIB_DATATYPE_DENSE_VECTOR
        THEN IF IsVectorSpace(h.space, IF flt THEN "float" ELSE "int")
             THEN NMSLIB_SUCCESS ELSE NMSLIB_ERROR_SPACE_INCOMPATIBLE
        ELSE IF ~flt THEN NMSLIB_ERROR_SPACE_INCOMPATIBLE
        ELSE IF h.data_type = NMSLIB_DATATYPE_SPARSE_VECTOR
        THEN IF validate_sparse_elements(Ptr(TRUE), SubSeq(q, 1, ne), TRUE)
                    # NMSLIB_SUCCESS
             THEN NMSLIB_ERROR_INVALID_SPARSE_ELEMENT
             ELSE IF IsSparseSpace(h.space) THEN NMSLIB_SUCCESS
             ELSE NMSLIB_ERROR_SPACE_INCOMPATIBLE
        ELSE IF h.data_type = NMSLIB_DATATYPE_DENSE_UINT8_VECTOR
        THEN IF IsSiftSpace(h.space) THEN NMSLIB_SUCCESS
             ELSE NMSLIB_ERROR_SPACE_INCOMPATIBLE
        ELSE IF h.data_type = NMSLIB_DATATYPE_OBJECT_AS_STRING
        THEN NMSLIB_SUCCESS
        ELSE NMSLIB_ERROR_SPACE_INCOMPATIBLE

\* the instantiations the call reaches: the query object is built through idx
\* or idx_int, the KNNQuery and the Search are always those of idx (float)
get_size_inst(h) == {fill_inst(h), "float"}

KnnQueryGetSize(t, hp, qp, q, k, outp, ne, env) ==
    /\ ~crashed
    /\ hp => handle # NoHandle
    /\ env # "closest_last"
    /\ env = "fault_caught" => hp /\ handle.index_ptr = NoIndex
    /\ UNCHANGED <<created, heap, borrows, result, disk, batch>>
    /\ LET err == validate_common_inputs(Ptr(hp), Ptr(qp), Len(q), Ptr(outp))
           arg == [query |-> q, k |-> k, env |-> env]
           ret(status, inst, fault, eng, dead, size) ==
               /\ handle' = IF status = NMSLIB_SUCCESS THEN Search(handle)
                            ELSE handle
               /\ crashed' = dead
               /\ last_error' = IF dead THEN last_error
                                ELSE set_last_error(last_error, t, status)
               /\ lastCall' = Call("knn_query_get_size", t, status,
                                   IF hp THEN "live" ELSE "null", inst, fault,
                                   0, eng, arg, [out_size |-> size])
       IN  IF err # NMSLIB_SUCCESS THEN ret(err, {}, "none", FALSE, FALSE, Unwritten)
           ELSE LET h   == handle
                    enc == get_size_encode(h, q, ne)
                    all == get_size_inst(h)
                IN  IF enc # NMSLIB_SUCCESS
                    THEN ret(enc, {}, "none", FALSE, FALSE, Unwritten)
                    ELSE IF env = "obj_throws"
                    THEN ret(NMSLIB_ERROR_RUNTIME, {fill_inst(h)}, "none", TRUE,
                             FALSE, Unwritten)
                    ELSE IF h.index_ptr = NoIndex
                    THEN IF env = "fault_caught"
                         THEN ret(NMSLIB_ERROR_RUNTIME, all, "null_deref", TRUE,
                                  FALSE, Unwritten)
                         ELSE ret(NoReturn, all, "null_deref", TRUE, TRUE, Unwritten)
                    ELSE IF env = "search_throws"
                    THEN ret(NMSLIB_ERROR_RUNTIME, all, CastFault(h), TRUE, FALSE,
                             Unwritten)
                    ELSE ret(NMSLIB_SUCCESS, all, CastFault(h), TRUE, FALSE,
                             Min(k, h.index_ptr.over))

\* ------------------------------------------------- nmslib_borrowed_data_free
\* ptr is read as a nmslib_borrowed_data_t (lines 34-40): when it is one, the
\* data block and then the wrapper are released through the wrapper's
\* allocator; when it is any other block, the fields read are not a wrapper's
nmslib_borrowed_data_free(hp, ptr) ==
    IF ptr = NULL THEN [heap |-> hp, fault |-> "none"]
    ELSE IF hp[ptr] # Freed /\ hp[ptr].kind = "wrapper"
    THEN [heap |-> Free(Free(hp, hp[ptr].ref, hp[ptr].alloc), ptr, hp[ptr].alloc),
          fault |-> "none"]
    ELSE [heap |-> hp, fault |-> "type_confusion"]

\* what a build makes of the call on a block that is no wrapper: the process
\* ends, or the call returns without having released anything
FreeOutcomes == {"crash", "returns"}

\* the caller invokes the free_fn a borrow returned on the pointer it returned
BorrowedFree(t, b, ub) ==
    /\ ~crashed
    /\ b \in borrows
    /\ UNCHANGED <<handle, created, result, last_error, disk, batch>>
    /\ LET f == nmslib_borrowed_data_free(heap, b.data)
       IN  /\ heap' = f.heap
           /\ borrows' = borrows \ {b}
           /\ crashed' = (f.fault # "none" /\ ub = "crash")
           /\ lastCall' = Call("borrowed_data_free", t, NoReturn, "none", {},
                               f.fault, 0, FALSE, b, [ub |-> ub])

\* ---------------------------- nmslib_borrow_data_dense, nmslib_borrow_data_sparse
\* what the environment does during a borrow: the allocator returns NULL for
\* the wrapper or for the copy, or the space's GetElemQty throws
BorrowOutcomes == {"ok", "wrapper_null", "data_null", "elemqty_throws"}

Borrowed(status, hp, got, allocs) ==
    [status |-> status, heap |-> hp, got |-> got, allocs |-> allocs]

\* lines 1395-1448 and 1479-1503: from the wrapper's allocation to the return
borrow_copy(h, hp, position, env) ==
    LET w   == IF env = "wrapper_null" THEN NULL ELSE AllocAddr(hp)
        hp1 == IF w = NULL THEN hp ELSE Alloc(hp, w, h.allocator, "wrapper", NULL)
        d   == IF env = "data_null" THEN NULL ELSE AllocAddr(hp1)
    IN  IF w = NULL THEN Borrowed(NMSLIB_ERROR_OUT_OF_MEMORY, hp, {}, 1)
        ELSE IF env = "elemqty_throws"
        THEN Borrowed(NMSLIB_ERROR_RUNTIME, hp1, {}, 1)
        ELSE IF d = NULL
        THEN Borrowed(NMSLIB_ERROR_OUT_OF_MEMORY, Free(hp1, w, h.allocator), {}, 3)
        ELSE Borrowed(NMSLIB_SUCCESS,
                      Alloc(Alloc(hp1, w, h.allocator, "wrapper", d),
                            d, h.allocator, "data", h.data[position + 1].elems),
                      {[data |-> d, wrapper |-> w, via |-> h.allocator,
                        size |-> Len(h.data[position + 1].elems),
                        free_fn |-> "nmslib_borrowed_data_free"]},
                      2)

borrow_data_dense(h, hp, position, env) ==
    IF h.data_type # NMSLIB_DATATYPE_DENSE_VECTOR
    THEN Borrowed(NMSLIB_ERROR_SPACE_INCOMPATIBLE, hp, {}, 0)
    ELSE IF env # "wrapper_null" /\ AllocAddr(hp) # NULL
            /\ ~IsVectorSpace(h.space, fill_inst(h))
    THEN Borrowed(NMSLIB_ERROR_SPACE_INCOMPATIBLE, hp, {}, 2)
    ELSE borrow_copy(h, hp, position, env)

borrow_data_sparse(h, hp, position, env) ==
    IF h.data_type # NMSLIB_DATATYPE_SPARSE_VECTOR
       \/ h.dist_type # NMSLIB_DISTTYPE_FLOAT
    THEN Borrowed(NMSLIB_ERROR_SPACE_INCOMPATIBLE, hp, {}, 0)
    ELSE IF ~IsSparseSpace(h.space)
    THEN Borrowed(NMSLIB_ERROR_SPACE_INCOMPATIBLE, hp, {}, 0)
    ELSE borrow_copy(h, hp, position, env)

\* kind: "dense" or "sparse"; outs: are data, size and free_fn all non-null
BorrowData(t, kind, hp, position, outs, env) ==
    /\ ~crashed
    /\ hp => handle # NoHandle
    /\ UNCHANGED <<handle, created, result, crashed, disk, batch>>
    /\ LET bad == ~hp \/ ~outs \/ position_rejected(handle, position)
           b   == IF bad THEN Borrowed(NMSLIB_ERROR_INVALID_ARGUMENT, heap, {}, 0)
                  ELSE IF kind = "dense"
                  THEN borrow_data_dense(handle, heap, position, env)
                  ELSE borrow_data_sparse(handle, heap, position, env)
       IN  /\ heap' = b.heap
           /\ borrows' = borrows \cup b.got
           /\ last_error' = set_last_error(last_error, t, b.status)
           /\ lastCall' = Call(IF kind = "dense" THEN "borrow_data_dense"
                               ELSE "borrow_data_sparse", t, b.status,
                               IF hp THEN "live" ELSE "null",
                               IF bad THEN {} ELSE {fill_inst(handle)}, "none",
                               b.allocs, FALSE,
                               [position |-> position, env |-> env,
                                before |-> Outstanding(heap)],
                               b.got)

\* -------------------------------------------------- nmslib_get_data_point_fill
\* the destination buffer the caller passes: `size` slots, none written yet
PointBuffer(size) == [i \in 1..size |-> Unwritten]

\* line 1294: the cast to SpaceSparseVectorSimpleStorage<float>, the class of
\* the float registry's sparse space
IsSimpleStorageSpace(sp) == sp.inst = "float" /\ sp.kind = "sparse"

\* static_cast<uint8_t> of line 1328
ToUint8(x) == x % 256

\* the size check and the copy of one branch (lines 1268-1275, 1283-1290,
\* 1299-1308, 1320-1329); uint8: the copy narrows each element to a byte
get_data_point_copy_truncating(buf, elems, uint8) ==
    IF Len(buf) < Len(elems)
    THEN Filled(NMSLIB_ERROR_BUFFER_TOO_SMALL,
                [i \in 1..Len(buf) |-> IF uint8 THEN ToUint8(elems[i]) ELSE elems[i]])
    ELSE Filled(NMSLIB_SUCCESS,
                [i \in 1..Len(buf) |->
                   IF i > Len(elems) THEN buf[i]
                   ELSE IF uint8 THEN ToUint8(elems[i]) ELSE elems[i]])
get_data_point_copy(buf, elems, uint8) ==
    IF Len(buf) < Len(elems)
    THEN Filled(NMSLIB_ERROR_BUFFER_TOO_SMALL, buf)
    ELSE Filled(NMSLIB_SUCCESS,
                [i \in 1..Len(buf) |->
                   IF i > Len(elems) THEN buf[i]
                   ELSE IF uint8 THEN ToUint8(elems[i]) ELSE elems[i]])

\* lines 1261-1337; env "throws": the space's CreateDenseVectFromObj throws
get_data_point_fill(h, position, buf, env) ==
    LET elems  == h.data[position + 1].elems
        flt    == h.dist_type = NMSLIB_DISTTYPE_FLOAT
        bad    == Filled(NMSLIB_ERROR_SPACE_INCOMPATIBLE, buf)
        dense(uint8) ==
            LET c == get_data_point_copy(buf, elems, uint8)
            IN  IF c.status # NMSLIB_SUCCESS THEN c
                ELSE IF env = "throws" THEN Filled(NMSLIB_ERROR_RUNTIME, buf)
                ELSE c
    IN  IF h.data_type = NMSLIB_DATATYPE_DENSE_VECTOR
        THEN IF IsVectorSpace(h.space, IF flt THEN "float" ELSE "int")
             THEN dense(FALSE) ELSE bad
        ELSE IF h.data_type = NMSLIB_DATATYPE_SPARSE_VECTOR
        THEN IF flt /\ IsSimpleStorageSpace(h.space)
             THEN get_data_point_copy(buf, elems, FALSE) ELSE bad
        ELSE IF h.data_type = NMSLIB_DATATYPE_DENSE_UINT8_VECTOR
        THEN IF flt /\ IsSiftSpace(h.space) THEN dense(TRUE) ELSE bad
        ELSE bad

\* dp: is the destination non-null; size: its capacity in elements
GetDataPointFill(t, hp, position, dp, size, env) ==
    /\ ~crashed
    /\ hp => handle # NoHandle
    /\ UNCHANGED <<handle, created, heap, borrows, result, crashed, disk, batch>>
    /\ LET buf == PointBuffer(size)
           bad == ~hp \/ ~dp \/ position_rejected(handle, position)
           f   == IF bad THEN Filled(NMSLIB_ERROR_INVALID_ARGUMENT, buf)
                  ELSE get_data_point_fill(handle, position, buf, env)
       IN  /\ last_error' = set_last_error(last_error, t, f.status)
           /\ lastCall' = Call("get_data_point_fill", t, f.status,
                               IF hp THEN "live" ELSE "null",
                               IF bad THEN {} ELSE {fill_inst(handle)}, "none",
                               0, env = "throws",
                               [position |-> position, data |-> dp, size |-> size,
                                env |-> env],
                               f.result)

\* ------------------------------------------------ nmslib_range_query_get_size
\* lines 967-1039: the object-construction branches are those of the fills;
\* outp: is out_size non-null
RangeQueryGetSize(t, hp, qp, q, radius, outp, env) ==
    /\ ~crashed
    /\ hp => handle # NoHandle
    /\ env # "closest_last"
    /\ env = "fault_caught" => hp /\ handle.index_ptr = NoIndex
    /\ UNCHANGED <<created, heap, borrows, result, disk, batch>>
    /\ LET err == validate_common_inputs(Ptr(hp), Ptr(qp), Len(q), Ptr(outp))
           arg == [query |-> q, radius |-> radius, env |-> env]
           ret(status, inst, fault, eng, dead, size) ==
               /\ handle' = IF status = NMSLIB_SUCCESS THEN Search(handle)
                            ELSE handle
               /\ crashed' = dead
               /\ last_error' = IF dead THEN last_error
                                ELSE set_last_error(last_error, t, status)
               /\ lastCall' = Call("range_query_get_size", t, status,
                                   IF hp THEN "live" ELSE "null", inst, fault,
                                   0, eng, arg, [out_size |-> size])
       IN  IF err # NMSLIB_SUCCESS THEN ret(err, {}, "none", FALSE, FALSE, Unwritten)
           ELSE LET h    == handle
                    enc  == fill_encode(h, q)
                    inst == {fill_inst(h)}
                IN  IF enc # NMSLIB_SUCCESS
                    THEN ret(enc, {}, "none", FALSE, FALSE, Unwritten)
                    ELSE IF env = "obj_throws"
                    THEN ret(NMSLIB_ERROR_QUERY_EXECUTION_FAILED, inst, "none",
                             TRUE, FALSE, Unwritten)
                    ELSE IF h.index_ptr = NoIndex
                    THEN IF env = "fault_caught"
                         THEN ret(NMSLIB_ERROR_QUERY_EXECUTION_FAILED, inst,
                                  "null_deref", TRUE, FALSE, Unwritten)
                         ELSE ret(NoReturn, inst, "null_deref", TRUE, TRUE,
                                  Unwritten)
                    ELSE IF env = "search_throws"
                    THEN ret(NMSLIB_ERROR_QUERY_EXECUTION_FAILED, inst, CastFault(h),
                             TRUE, FALSE, Unwritten)
                    ELSE ret(NMSLIB_SUCCESS, inst, CastFault(h), TRUE, FALSE,
                             Len(RangeFound(BuiltOver(h), q, radius)))

\* -------------------------------------------------------- nmslib_get_distance
\* lines 1152-1176; dp: is distance non-null; env "throws": the space's
\* IndexTimeDistance throws
GetDistance(t, hp, pos1, pos2, dp, env) ==
    /\ ~crashed
    /\ hp => handle # NoHandle
    /\ UNCHANGED <<handle, created, heap, borrows, result, crashed, disk, batch>>
    /\ LET bad == ~hp \/ ~dp \/ position_rejected(handle, pos1)
                  \/ position_rejected(handle, pos2)
           st  == IF bad THEN NMSLIB_ERROR_INVALID_ARGUMENT
                  ELSE IF env = "throws" THEN NMSLIB_ERROR_RUNTIME
                  ELSE NMSLIB_SUCCESS
       IN  /\ last_error' = set_last_error(last_error, t, st)
           /\ lastCall' = Call("get_distance", t, st,
                               IF hp THEN "live" ELSE "null",
                               IF bad THEN {} ELSE {fill_inst(handle)}, "none",
                               0, ~bad,
                               [pos1 |-> pos1, pos2 |-> pos2, env |-> env],
                               IF st # NMSLIB_SUCCESS THEN Unwritten
                               ELSE Distance(handle.data[pos1 + 1].elems,
                                             handle.data[pos2 + 1].elems))

\* -------------------------------------------------- nmslib_get_data_point_size
\* lines 1187-1238: the data-type branches, SUCCESS when *size is written
get_data_point_size(h) ==
    LET flt == h.dist_type = NMSLIB_DISTTYPE_FLOAT
    IN  IF h.data_type = NMSLIB_DATATYPE_DENSE_VECTOR
        THEN IF IsVectorSpace(h.space, IF flt THEN "float" ELSE "int")
             THEN NMSLIB_SUCCESS ELSE NMSLIB_ERROR_SPACE_INCOMPATIBLE
        ELSE IF ~flt THEN NMSLIB_ERROR_SPACE_INCOMPATIBLE
        ELSE IF h.data_type = NMSLIB_DATATYPE_SPARSE_VECTOR
        THEN IF IsSparseSpace(h.space) THEN NMSLIB_SUCCESS
             ELSE NMSLIB_ERROR_SPACE_INCOMPATIBLE
        ELSE IF h.data_type = NMSLIB_DATATYPE_DENSE_UINT8_VECTOR
        THEN IF IsSiftSpace(h.space) THEN NMSLIB_SUCCESS
             ELSE NMSLIB_ERROR_SPACE_INCOMPATIBLE
        ELSE IF h.data_type = NMSLIB_DATATYPE_OBJECT_AS_STRING
        THEN NMSLIB_SUCCESS
        ELSE NMSLIB_ERROR_SPACE_INCOMPATIBLE

\* sp: is size non-null; env "throws": the space's GetElemQty throws
GetDataPointSize(t, hp, position, sp, env) ==
    /\ ~crashed
    /\ hp => handle # NoHandle
    /\ UNCHANGED <<handle, created, heap, borrows, result, crashed, disk, batch>>
    /\ LET bad == ~hp \/ ~sp \/ position_rejected(handle, position)
           enc == IF bad THEN NMSLIB_ERROR_INVALID_ARGUMENT
                  ELSE get_data_point_size(handle)
           st  == IF enc = NMSLIB_SUCCESS /\ env = "throws"
                  THEN NMSLIB_ERROR_RUNTIME ELSE enc
       IN  /\ last_error' = set_last_error(last_error, t, st)
           /\ lastCall' = Call("get_data_point_size", t, st,
                               IF hp THEN "live" ELSE "null",
                               IF bad THEN {} ELSE {fill_inst(handle)}, "none",
                               0, enc = NMSLIB_SUCCESS,
                               [position |-> position, env |-> env],
                               IF st # NMSLIB_SUCCESS THEN Unwritten
                               ELSE Len(handle.data[position + 1].elems))

\* ------------------------------------------------ nmslib_get_data_point_string
\* lines 1346-1375; outs: are data and data_len non-null; ap: is the allocator
\* usable (then it is al); env "alloc_null": the allocator returns NULL
GetDataPointString(t, hp, position, outs, ap, al, env) ==
    /\ ~crashed
    /\ hp => handle # NoHandle
    /\ UNCHANGED <<handle, created, borrows, result, crashed, disk, batch>>
    /\ LET bad  == ~hp \/ ~outs \/ ~ap \/ position_rejected(handle, position)
           str  == dup_string(heap, env = "alloc_null")
           done(status, hp1, allocs, out) ==
               /\ heap' = hp1
               /\ last_error' = set_last_error(last_error, t, status)
               /\ lastCall' = Call("get_data_point_string", t, status,
                                   IF hp THEN "live" ELSE "null", {}, "none",
                                   allocs, FALSE,
                                   [position |-> position, env |-> env], out)
       IN  IF bad THEN done(NMSLIB_ERROR_INVALID_ARGUMENT, heap, 0, NULL)
           ELSE IF handle.data_type # NMSLIB_DATATYPE_OBJECT_AS_STRING
                   \/ handle.dist_type # NMSLIB_DISTTYPE_FLOAT
           THEN done(NMSLIB_ERROR_SPACE_INCOMPATIBLE, heap, 0, NULL)
           ELSE IF str = NULL THEN done(NMSLIB_ERROR_OUT_OF_MEMORY, heap, 1, NULL)
           ELSE done(NMSLIB_SUCCESS,
                     Alloc(heap, str, al, "string", handle.data[position + 1].elems),
                     1, str)

\* ----------------------------------------------------- nmslib_knn_query_batch
\* The call is a process: the caller enters ParallelFor (line 858), whose
\* workers take the next query index from a shared atomic counter, run the
\* lambda (lines 858-957) on it and, when it throws, record the exception and
\* move the counter to the end; the caller joins them and returns.
NoCode == 0 - 1   \* an exception the engine threw: the lambda set no code

\* ParallelFor: a thread count of 0 means hardware_concurrency
NumThreads(tps) == IF tps = 0 THEN hardware_concurrency ELSE tps

\* the element of results the lambda writes for query q on thread threadId
result_slot_by_thread(q, threadId) == threadId
result_slot(q, threadId) == q

\* one run of the lambda on query q with result argument r, whose buffer is buf
batch_query(h, q, k, r, buf, env, pop) ==
    LET thrown(code) == [thrown |-> TRUE, dead |-> FALSE, code |-> code,
                         result |-> buf]
        enc == fill_encode(h, q)
    IN  IF ~r.arrays \/ r.capacity < k THEN thrown(NMSLIB_ERROR_INVALID_ARGUMENT)
        ELSE IF enc # NMSLIB_SUCCESS THEN thrown(enc)
        ELSE IF env = "obj_throws" THEN thrown(NoCode)
        ELSE IF h.index_ptr = NoIndex
        THEN IF env = "fault_caught" THEN thrown(NoCode)
             ELSE [thrown |-> FALSE, dead |-> TRUE, code |-> NoCode, result |-> buf]
        ELSE IF env = "search_throws" THEN thrown(NoCode)
        ELSE LET f == knn_copy(buf, KnnQueue(BuiltOver(h), q, k, pop))
             IN  IF f.status # NMSLIB_SUCCESS THEN thrown(f.status)
                 ELSE [thrown |-> FALSE, dead |-> FALSE, code |-> NMSLIB_SUCCESS,
                       result |-> f.result]

\* the caller enters the call: lines 852-857
KnnQueryBatchEnter(t, hp, queries, k, rs, tps, pop) ==
    /\ ~crashed
    /\ batch = NoBatch
    /\ hp => handle # NoHandle
    /\ Len(rs) = Len(queries)
    /\ UNCHANGED <<handle, created, heap, borrows, result, crashed, disk>>
    /\ IF ~hp \/ Len(queries) = 0 \/ k = 0
       THEN /\ UNCHANGED batch
            /\ last_error' = set_last_error(last_error, t,
                                            NMSLIB_ERROR_INVALID_ARGUMENT)
            /\ lastCall' = Call("knn_query_batch", t, NMSLIB_ERROR_INVALID_ARGUMENT,
                                IF hp THEN "live" ELSE "null", {}, "none", 0, FALSE,
                                [queries |-> queries, k |-> k, rs |-> rs,
                                 tps |-> tps, pop |-> pop],
                                [results |-> <<>>, failed |-> <<>>, by |-> <<>>])
       ELSE /\ batch' = [t |-> t, queries |-> queries, k |-> k, rs |-> rs,
                         tps |-> tps, pop |-> pop,
                         results |-> [i \in 1..Len(rs) |-> Buffer(rs[i])],
                         current |-> 1,
                         state |-> [w \in 1..NumThreads(tps) |-> "idle"],
                         holding |-> [w \in 1..NumThreads(tps) |-> 0],
                         by |-> [i \in 1..Len(rs) |-> 0],
                         failed |-> <<>>]
            /\ UNCHANGED last_error
            /\ lastCall' = Call("knn_query_batch", t, NoReturn, "live", {}, "none",
                                0, FALSE, <<>>, <<>>)

\* worker w takes the next index: current.fetch_add(1), and leaves at the end
BatchWorkerTake(w) ==
    /\ ~crashed
    /\ batch # NoBatch
    /\ w \in DOMAIN batch.state
    /\ batch.state[w] = "idle"
    /\ UNCHANGED <<handle, created, heap, borrows, result, crashed, disk,
                   last_error, lastCall>>
    /\ batch' = IF batch.current > Len(batch.queries)
                THEN [batch EXCEPT !.state[w] = "exited"]
                ELSE [batch EXCEPT !.state[w] = "running",
                                   !.holding[w] = batch.current,
                                   !.current = @ + 1]

\* worker w runs the lambda on the index it holds
BatchWorkerRun(w, env) ==
    /\ ~crashed
    /\ batch # NoBatch
    /\ w \in DOMAIN batch.state
    /\ batch.state[w] = "running"
    /\ env = "fault_caught" => handle.index_ptr = NoIndex
    /\ UNCHANGED <<created, heap, borrows, result, disk, last_error, lastCall>>
    /\ LET q    == batch.holding[w]
           slot == result_slot(q, w)
           run  == batch_query(handle, batch.queries[q], batch.k, batch.rs[q],
                               batch.results[q], env, batch.pop)
       IN  /\ crashed' = run.dead
           /\ handle' = IF run.dead \/ run.thrown THEN handle ELSE Search(handle)
           /\ batch' =
                IF run.dead THEN batch
                ELSE IF run.thrown
                THEN [batch EXCEPT !.state[w] = "exited",
                                   !.current = Len(batch.queries) + 1,
                                   !.by[q] = w,
                                   !.failed = Append(@, [q |-> q, code |-> run.code])]
                ELSE [batch EXCEPT !.state[w] = "idle",
                                   !.by[q] = w,
                                   !.results[slot] = run.result]

\* every worker has left: the caller joins them and returns (lines 958-964)
KnnQueryBatchReturn ==
    /\ ~crashed
    /\ batch # NoBatch
    /\ \A w \in DOMAIN batch.state : batch.state[w] = "exited"
    /\ UNCHANGED <<handle, created, heap, borrows, result, crashed, disk>>
    /\ LET st == IF batch.failed = <<>> THEN NMSLIB_SUCCESS
                 ELSE NMSLIB_ERROR_QUERY_EXECUTION_FAILED
       IN  /\ batch' = NoBatch
           /\ last_error' = set_last_error(last_error, batch.t, st)
           /\ lastCall' = Call("knn_query_batch", batch.t, st, "live",
                               {fill_inst(handle)}, "none", 0, TRUE,
                               [queries |-> batch.queries, k |-> batch.k,
                                rs |-> batch.rs, tps |-> batch.tps,
                                pop |-> batch.pop],
                               [results |-> batch.results,
                                failed |-> batch.failed, by |-> batch.by])

\* ------------------------------------------------------------ specifications
\* the arguments of the creations the specifications below start from
DenseFloat ==
    [space |-> "l2", data_type |-> NMSLIB_DATATYPE_DENSE_VECTOR,
     dist_type |-> NMSLIB_DISTTYPE_FLOAT, allocator |-> "A1", ptrs_ok |-> TRUE]
DenseInt ==
    [space |-> "bit_hamming", data_type |-> NMSLIB_DATATYPE_DENSE_VECTOR,
     dist_type |-> NMSLIB_DISTTYPE_INT, allocator |-> "A1", ptrs_ok |-> TRUE]
SparseFloat ==
    [space |-> "cosinesimil_sparse", data_type |-> NMSLIB_DATATYPE_SPARSE_VECTOR,
     dist_type |-> NMSLIB_DISTTYPE_FLOAT, allocator |-> "A2", ptrs_ok |-> TRUE]
\* the batches of one row
Singles(rows) == {<<r>> : r \in rows}

\* creation and destruction, over every space name and distance type
NextCreate ==
    \/ \E a \in CreateArgs(SpaceNames,
                           {NMSLIB_DATATYPE_DENSE_VECTOR},
                           DistTypes \cup {BadDistType}, Allocators),
          env \in CreateOutcomes : IndexCreate("T1", a, env)
    \/ \E h \in {"null", "live"} : IndexDestroy("T1", h)
SpecCreate == Init /\ [][NextCreate]_vars

\* queries of a dense float handle, built or not
NextQuery ==
    \/ IndexCreate("T1", DenseFloat, "ok")
    \/ \E rows \in Batches(DenseRows) :
          AddDataPointBatchPointers("T1", TRUE, rows, FALSE)
    \/ \E env \in BuildOutcomes : CreateIndex("T1", TRUE, env)
    \/ ResetIndex("T1", TRUE)
    \/ \E k \in Ks, r \in ResultArgs, env \in QueryEnvs :
          KnnQueryFill("T1", TRUE, TRUE, <<1>>, k, r, env)
    \/ \E radius \in Radii, r \in ResultArgs, env \in QueryEnvs :
          RangeQueryFill("T1", TRUE, TRUE, <<1>>, radius, r, env)
SpecQuery == Init /\ [][NextQuery]_vars

\* inserts into a sparse float handle
NextInsert ==
    \/ IndexCreate("T1", SparseFloat, "ok")
    \/ \E hp \in BOOLEAN, dp \in BOOLEAN, raw \in SparseRows :
          AddDataPoint("T1", hp, dp, raw, 7)
    \/ \E rows \in Batches(SparseRows), ids_given \in BOOLEAN :
          AddDataPointBatchPointers("T1", TRUE, rows, ids_given)
    \/ \E rows \in Singles(Uint8Rows), ids_given \in BOOLEAN :
          AddDataPointBatchUint8("T1", TRUE, rows, ids_given, 0)
    \/ \E env \in BuildOutcomes : CreateIndex("T1", TRUE, env)
    \/ ResetIndex("T1", TRUE)
SpecInsert == Init /\ [][NextInsert]_vars

\* borrows from a dense or a sparse handle, and their release
NextBorrow ==
    \/ \E a \in {DenseFloat, SparseFloat} : IndexCreate("T1", a, "ok")
    \/ \E rows \in Singles(DenseRows \cup SparseRows) :
          AddDataPointBatchPointers("T1", TRUE, rows, TRUE)
    \/ \E kind \in {"dense", "sparse"}, position \in 0..MaxData,
          outs \in BOOLEAN, env \in BorrowOutcomes :
          BorrowData("T1", kind, TRUE, position, outs, env)
    \/ \E b \in borrows, ub \in FreeOutcomes : BorrowedFree("T1", b, ub)
    \/ ResetIndex("T1", TRUE)
    \/ IndexDestroy("T1", "live")
SpecBorrow == Init /\ [][NextBorrow]_vars

\* an index saved and loaded again
NextSave ==
    \/ IndexCreate("T1", DenseFloat, "ok")
    \/ \E rows \in Batches(DenseRows) :
          AddDataPointBatchPointers("T1", TRUE, rows, FALSE)
    \/ \E env \in BuildOutcomes : CreateIndex("T1", TRUE, env)
    \/ \E path_ok \in BOOLEAN, save_data \in BOOLEAN, throws \in BOOLEAN :
          SaveIndex("T1", TRUE, path_ok, save_data, throws)
    \/ IndexDestroy("T1", "live")
    \/ \E a \in LoadArgs({NMSLIB_DATATYPE_DENSE_VECTOR}, DistTypes, {"A1"}),
          load_data \in BOOLEAN, env \in LoadOutcomes :
          LoadIndex("T1", a, load_data, env)
SpecSave == Init /\ [][NextSave]_vars

FullBuffer == [present |-> TRUE, arrays |-> TRUE, capacity |-> MaxCap]

\* batch queries of a dense float handle and of a uint8 one, with the
\* workers of ParallelFor interleaved
Uint8Float ==
    [space |-> "l2sqr_sift", data_type |-> NMSLIB_DATATYPE_DENSE_UINT8_VECTOR,
     dist_type |-> NMSLIB_DISTTYPE_FLOAT, allocator |-> "A1", ptrs_ok |-> TRUE]
\* n queries, neighbouring ones different
BatchQueries(n) == [i \in 1..n |-> IF i % 2 = 1 THEN <<1>> ELSE <<2, 1>>]
BatchBuffers == {FullBuffer, [present |-> TRUE, arrays |-> TRUE, capacity |-> 0]}
NextBatch ==
    \/ batch = NoBatch /\ \E a \in {DenseFloat, Uint8Float} : IndexCreate("T1", a, "ok")
    \/ batch = NoBatch /\ \E rows \in {<<<<1>>, <<2, 1>>>>} :
          AddDataPointBatchPointers("T1", TRUE, rows, FALSE)
    \/ batch = NoBatch /\ CreateIndex("T1", TRUE, "ok")
    \/ \E n \in 1..MaxBatch, k \in {1, MaxK}, tps \in {1, MaxThreads},
          pop \in {"closest_first", "closest_last"} :
          \E rs \in [1..n -> BatchBuffers] :
             KnnQueryBatchEnter("T1", TRUE, BatchQueries(n), k, rs, tps, pop)
    \/ \E w \in 1..MaxThreads : BatchWorkerTake(w)
    \/ \E w \in 1..MaxThreads, env \in {"closest_first", "search_throws"} :
          BatchWorkerRun(w, env)
    \/ KnnQueryBatchReturn
SpecBatch == Init /\ [][NextBatch]_vars

\* batch inserts into a uint8 and a dense handle, the engine failing at an
\* element of the batch or at none
NextBatchInsert ==
    \/ \E a \in {Uint8Float, DenseFloat} : IndexCreate("T1", a, "ok")
    \/ \E rows \in Batches(Uint8Rows), ids_given \in BOOLEAN, fail_at \in 0..MaxBatch :
          AddDataPointBatchUint8("T1", TRUE, rows, ids_given, fail_at)
    \/ \E rows \in Batches(DenseRows), ids_given \in BOOLEAN, fail_at \in 0..MaxBatch :
          AddDataPointBatch("T1", TRUE, TRUE, rows, ids_given, TRUE, fail_at)
    \/ \E rows \in Batches(DenseRows), ids_given \in BOOLEAN, fail_at \in 0..MaxBatch :
          AddDataPointBatchString("T1", TRUE, TRUE, rows, ids_given, fail_at)
    \/ CreateIndex("T1", TRUE, "ok")
    \/ IndexDestroy("T1", "live")
SpecBatchInsert == Init /\ [][NextBatchInsert]_vars

\* stored points read back into a caller's buffer
NextPoint ==
    \/ \E a \in {DenseFloat, SparseFloat, Uint8Float} : IndexCreate("T1", a, "ok")
    \/ \E rows \in Singles(DenseRows \cup SparseRows) :
          AddDataPointBatchPointers("T1", TRUE, rows, TRUE)
    \/ \E rows \in Singles(Uint8Rows) :
          AddDataPointBatchUint8("T1", TRUE, rows, TRUE, 0)
    \/ \E position \in 0..MaxData, dp \in BOOLEAN, size \in 0..MaxCap,
          env \in {"ok", "throws"} :
          GetDataPointFill("T1", TRUE, position, dp, size, env)
    \/ IndexDestroy("T1", "live")
SpecPoint == Init /\ [][NextPoint]_vars

\* k-NN fills of a dense float handle built over none, one or more points
NextKnn ==
    \/ IndexCreate("T1", DenseFloat, "ok")
    \/ \E rows \in Batches(DenseRows) :
          AddDataPointBatchPointers("T1", TRUE, rows, FALSE)
    \/ CreateIndex("T1", TRUE, "ok")
    \/ \E k \in Ks, capacity \in 0..MaxCap,
          env \in {"closest_first", "closest_last", "search_throws"} :
          KnnQueryFill("T1", TRUE, TRUE, <<1>>, k,
                       [present |-> TRUE, arrays |-> TRUE, capacity |-> capacity], env)
SpecKnn == Init /\ [][NextKnn]_vars

\* builds, rebuilds and resets of a dense float handle as points are added
NextBuild ==
    \/ IndexCreate("T1", DenseFloat, "ok")
    \/ \E rows \in Batches(DenseRows), ids_given \in BOOLEAN :
          AddDataPointBatchPointers("T1", TRUE, rows, ids_given)
    \/ \E env \in BuildOutcomes : CreateIndex("T1", TRUE, env)
    \/ ResetIndex("T1", TRUE)
    \/ IndexDestroy("T1", "live")
SpecBuild == Init /\ [][NextBuild]_vars

\* two threads calling into the library in any order, each reading its own
\* error slot
NextError ==
    \/ \E t \in Threads : IndexCreate(t, DenseFloat, "ok")
    \/ \E t \in Threads, env \in {"ok", "create_throws"} : CreateIndex(t, TRUE, env)
    \/ \E t \in Threads : SetThreadPoolSize(t, TRUE, 0)
    \/ \E t \in Threads : DataQty(t, TRUE)
    \/ GetThreadPoolSize("T1", TRUE)
    \/ \E t \in Threads, env \in DetailOutcomes :
          GetLastErrorDetail(t, TRUE, TRUE, "A1", env)
    \/ \E addr \in Addrs : FreeString("T1", TRUE, addr, TRUE)
    \/ IndexDestroy("T2", "live")
SpecError == Init /\ [][NextError]_vars

\* every status-returning operation, on the live handle or on a null one
NextNull ==
    \/ IndexCreate("T1", DenseFloat, "ok")
    \/ \E rows \in Singles(DenseRows) :
          AddDataPointBatchPointers("T1", TRUE, rows, TRUE)
    \/ \E hp \in BOOLEAN : AddDataPoint("T1", hp, TRUE, <<1>>, 7)
    \/ \E hp \in BOOLEAN : AddDataPointBatchUint8("T1", hp, <<<<1>>>>, TRUE, 0)
    \/ \E hp \in BOOLEAN : CreateIndex("T1", hp, "ok")
    \/ \E hp \in BOOLEAN : ResetIndex("T1", hp)
    \/ \E hp \in BOOLEAN :
          KnnQueryGetSize("T1", hp, TRUE, <<1>>, 1, TRUE, 1, "closest_first")
    \/ \E hp \in BOOLEAN :
          KnnQueryFill("T1", hp, TRUE, <<1>>, 1, FullBuffer, "closest_first")
    \/ \E hp \in BOOLEAN :
          RangeQueryFill("T1", hp, TRUE, <<1>>, 0, FullBuffer, "closest_first")
    \/ \E hp \in BOOLEAN, kind \in {"dense", "sparse"} :
          BorrowData("T1", kind, hp, 0, TRUE, "ok")
    \/ \E hp \in BOOLEAN : SaveIndex("T1", hp, TRUE, TRUE, TRUE)
    \/ \E hp \in BOOLEAN : SetThreadPoolSize("T1", hp, 2)
SpecNull == Init /\ [][NextNull]_vars

\* the life of a handle of either instantiation
Next ==
    \/ \E a \in {DenseFloat, DenseInt, SparseFloat} : IndexCreate("T1", a, "ok")
    \/ \E rows \in Singles({<<1>>}) :
          AddDataPointBatchPointers("T1", TRUE, rows, TRUE)
    \/ AddDataPoint("T1", TRUE, TRUE, <<1>>, 7)
    \/ \E env \in {"ok", "create_throws"} : CreateIndex("T1", TRUE, env)
    \/ ResetIndex("T1", TRUE)
    \/ \E env \in {"closest_first", "fault_caught"} :
          KnnQueryGetSize("T1", TRUE, TRUE, <<1>>, 1, TRUE, 1, env)
    \/ \E env \in {"closest_first", "fault_caught"} :
          KnnQueryFill("T1", TRUE, TRUE, <<1>>, 1,
                       FullBuffer, env)
    \/ \E env \in {"closest_first", "fault_caught"} :
          RangeQueryFill("T1", TRUE, TRUE, <<1>>, 0,
                         FullBuffer, env)
    \/ \E kind \in {"dense", "sparse"} : BorrowData("T1", kind, TRUE, 0, TRUE, "ok")
    \/ \E b \in borrows : BorrowedFree("T1", b, "returns")
    \/ \E path_ok \in BOOLEAN : SaveIndex("T1", TRUE, path_ok, TRUE, TRUE)
    \/ \E size \in {0, 2} : SetThreadPoolSize("T1", TRUE, size)
    \/ \E h \in {"null", "live"} : IndexDestroy("T1", h)
Spec == Init /\ [][Next]_vars

\* the same life, the caller reading the error detail between its calls with
\* an allocator that cannot serve the strings
NextDetail ==
    \/ Next
    \/ GetLastErrorDetail("T1", TRUE, TRUE, "A1", "message_null")
SpecDetail == Init /\ [][NextDetail]_vars

\* queries and introspection of a dense float or a uint8 handle, between its
\* inserts and its builds
NextRead ==
    \/ \E a \in {DenseFloat, Uint8Float} : IndexCreate("T1", a, "ok")
    \/ AddDataPointBatchPointers("T1", TRUE, <<<<1>>>>, TRUE)
    \/ AddDataPointBatchUint8("T1", TRUE, <<<<1>>>>, TRUE, 0)
    \/ CreateIndex("T1", TRUE, "ok")
    \/ KnnQueryGetSize("T1", TRUE, TRUE, <<1>>, 1, TRUE, 1, "closest_first")
    \/ \E env \in {"closest_first", "search_throws"} :
          KnnQueryFill("T1", TRUE, TRUE, <<1>>, 1, FullBuffer, env)
    \/ RangeQueryGetSize("T1", TRUE, TRUE, <<1>>, 0, TRUE, "closest_first")
    \/ RangeQueryFill("T1", TRUE, TRUE, <<1>>, 0, FullBuffer, "closest_first")
    \/ KnnQueryBatchEnter("T1", TRUE, BatchQueries(1), 1, <<FullBuffer>>, 1,
                          "closest_first")
    \/ BatchWorkerTake(1)
    \/ BatchWorkerRun(1, "closest_first")
    \/ KnnQueryBatchReturn
    \/ \E env \in {"ok", "throws"} : GetDistance("T1", TRUE, 0, 0, TRUE, env)
    \/ GetDataPointSize("T1", TRUE, 0, TRUE, "ok")
    \/ GetDataPointFill("T1", TRUE, 0, TRUE, MaxCap, "ok")
    \/ GetDataPointString("T1", TRUE, 0, TRUE, TRUE, "A1", "ok")
    \/ DataQty("T1", TRUE)
SpecRead == Init /\ [][NextRead]_vars

\* the engine throwing inside creation, load, insert, build, query and save
NextThrow ==
    \/ \E a \in {DenseFloat, Uint8Float}, env \in {"ok", "throws", "bad_alloc"} :
          IndexCreate("T1", a, env)
    \/ \E env \in {"method_throws", "bad_alloc"} :
          LoadIndex("T1", [data_type |-> NMSLIB_DATATYPE_DENSE_VECTOR,
                           dist_type |-> NMSLIB_DISTTYPE_FLOAT,
                           allocator |-> "A1", ptrs_ok |-> TRUE], TRUE, env)
    \/ AddDataPointBatchPointers("T1", TRUE, <<<<1>>>>, TRUE)
    \/ \E fail_at \in 0..1 :
          AddDataPointBatchUint8("T1", TRUE, <<<<1>>>>, TRUE, fail_at)
    \/ \E env \in BuildOutcomes : CreateIndex("T1", TRUE, env)
    \/ \E env \in {"obj_throws", "search_throws"} :
          KnnQueryGetSize("T1", TRUE, TRUE, <<1>>, 1, TRUE, 1, env)
    \/ \E env \in {"closest_first", "obj_throws", "search_throws"} :
          KnnQueryFill("T1", TRUE, TRUE, <<1>>, 1, FullBuffer, env)
    \/ \E env \in {"obj_throws", "search_throws"} :
          RangeQueryGetSize("T1", TRUE, TRUE, <<1>>, 0, TRUE, env)
    \/ \E env \in {"obj_throws", "search_throws"} :
          RangeQueryFill("T1", TRUE, TRUE, <<1>>, 0, FullBuffer, env)
    \/ SaveIndex("T1", TRUE, TRUE, TRUE, TRUE)
    \/ IndexDestroy("T1", "live")
SpecThrow == Init /\ [][NextThrow]_vars

\* a caller reading the error detail again and again after a failed creation
\* or a rejected setting
NextDetailTwice ==
    \/ \E env \in {"ok", "alloc_null"} : IndexCreate("T1", DenseFloat, env)
    \/ SetThreadPoolSize("T1", TRUE, 0)
    \/ \E t \in Threads, env \in DetailOutcomes :
          GetLastErrorDetail(t, TRUE, TRUE, "A1", env)
    \/ \E addr \in Addrs : FreeString("T1", TRUE, addr, TRUE)
    \/ IndexDestroy("T1", "live")
SpecDetailTwice == Init /\ [][NextDetailTwice]_vars

\* the operations that take a position, on a handle as it fills and is reset
NextPosition ==
    \/ \E a \in {DenseFloat, Uint8Float} : IndexCreate("T1", a, "ok")
    \/ \E position \in 0..MaxData :
          GetDataPointString("T1", TRUE, position, TRUE, TRUE, "A1", "ok")
    \/ AddDataPointBatchPointers("T1", TRUE, <<<<1>>>>, TRUE)
    \/ AddDataPointBatchUint8("T1", TRUE, <<<<1>>>>, TRUE, 0)
    \/ ResetIndex("T1", TRUE)
    \/ \E pos1 \in 0..MaxData, pos2 \in 0..MaxData :
          GetDistance("T1", TRUE, pos1, pos2, TRUE, "ok")
    \/ \E position \in 0..MaxData :
          GetDataPointSize("T1", TRUE, position, TRUE, "ok")
    \/ \E position \in 0..MaxData :
          GetDataPointFill("T1", TRUE, position, TRUE, MaxCap, "ok")
    \/ \E kind \in {"dense", "sparse"}, position \in 0..MaxData :
          BorrowData("T1", kind, TRUE, position, TRUE, "ok")
    \/ \E b \in borrows : BorrowedFree("T1", b, "returns")
SpecPosition == Init /\ [][NextPosition]_vars

\* the thread-pool size set and read while the handle is filled, built and
\* reset
NextPool ==
    \/ IndexCreate("T1", Uint8Float, "ok")
    \/ AddDataPointBatchUint8("T1", TRUE, <<<<1>>>>, TRUE, 0)
    \/ \E env \in BuildOutcomes : CreateIndex("T1", TRUE, env)
    \/ ResetIndex("T1", TRUE)
    \/ \E size \in {0, 1, 2, MaxThreadPoolSize, MaxThreadPoolSize + 1} :
          SetThreadPoolSize("T1", TRUE, size)
    \/ GetThreadPoolSize("T1", TRUE)
    \/ IndexDestroy("T1", "live")
SpecPool == Init /\ [][NextPool]_vars

\* -------------------------------------------------------------------- claims
\* the arguments of the last call, as far as the caller controls them
ValidResultArg(r) == r.present /\ r.arrays
EngineAnswered == lastCall.arg.env \in {"closest_first", "closest_last", "fault_caught"}
StrictlyIncreasing(s) == \A i \in 2..Len(s) : s[i - 1] < s[i]
Unbuilt == handle # NoHandle /\ handle.index_ptr = NoIndex
Built == handle # NoHandle /\ handle.index_ptr # NoIndex

\* C1: for every Unbuilt handle, nmslib_knn_query_fill and
\* nmslib_range_query_fill called with otherwise valid arguments return
\* INDEX_NOT_BUILT or INDEX_BUILD_FAILED and never use the absent search
\* structure (no null dereference, the process goes on).
C1_UnbuiltQueryRejected ==
    ( /\ lastCall.op \in {"knn_query_fill", "range_query_fill"}
      /\ lastCall.h = "live"
      /\ Unbuilt
      /\ ValidResultArg(lastCall.arg.r)
      /\ EngineAnswered
      /\ IF lastCall.op = "knn_query_fill"
         THEN lastCall.arg.r.capacity >= lastCall.arg.k
         ELSE lastCall.arg.r.capacity > 0 )
    => /\ lastCall.status \in {NMSLIB_ERROR_INDEX_NOT_BUILT,
                               NMSLIB_ERROR_INDEX_BUILD_FAILED}
       /\ lastCall.fault = "none"
       /\ ~crashed

\* C2: nmslib_knn_query_fill on a built index, when the number of neighbours
\* the query yields exceeds result.capacity, returns BUFFER_TOO_SMALL, writes
\* no element of result.ids or result.distances, and leaves result.size == 0.
C2_BufferTooSmallZeroSize ==
    ( /\ lastCall.op = "knn_query_fill"
      /\ lastCall.h = "live"
      /\ Built
      /\ ValidResultArg(lastCall.arg.r)
      /\ EngineAnswered
      /\ Min(lastCall.arg.k, handle.index_ptr.over) > lastCall.arg.r.capacity )
    => /\ lastCall.status = NMSLIB_ERROR_BUFFER_TOO_SMALL
       /\ \A i \in 1..result.capacity :
             result.ids[i] = Unwritten /\ result.distances[i] = Unwritten
       /\ result.size = 0

\* C3: after every successful nmslib_knn_query_fill the distances written to
\* result.distances[0..size) are in non-decreasing order, with the ids of the
\* same neighbours in the matching positions, whatever order the engine's
\* queue pops its entries in.
C3_AscendingOutput ==
    ( /\ lastCall.op = "knn_query_fill"
      /\ lastCall.status = NMSLIB_SUCCESS )
    => /\ \A i, j \in 1..result.size :
             i < j => result.distances[i] <= result.distances[j]
       /\ \A i \in 1..result.size :
             \E e \in Entries(BuiltOver(handle), lastCall.arg.query) :
                e.id = result.ids[i] /\ e.dist = result.distances[i]

\* C4: nmslib_add_data_point on a sparse-vector handle with a point whose ids
\* are not strictly increasing always returns INVALID_SPARSE_ELEMENT, and the
\* handle's point collection is unchanged.
C4_UnsortedSparseRejected ==
    ( /\ lastCall.op = "add_data_point"
      /\ lastCall.h = "live"
      /\ lastCall.arg.data
      /\ handle.data_type = NMSLIB_DATATYPE_SPARSE_VECTOR
      /\ ~StrictlyIncreasing(lastCall.arg.raw) )
    => /\ lastCall.status = NMSLIB_ERROR_INVALID_SPARSE_ELEMENT
       /\ handle.data = lastCall.arg.before

\* C5: nmslib_add_data_point on a sparse-vector, float-distance handle whose
\* space is a sparse space, given a non-null non-empty point whose ids are
\* strictly increasing, always returns SUCCESS and the handle's data count
\* grows by exactly one.
C5_SortedSparseAccepted ==
    ( /\ lastCall.op = "add_data_point"
      /\ lastCall.h = "live"
      /\ lastCall.arg.data
      /\ handle.data_type = NMSLIB_DATATYPE_SPARSE_VECTOR
      /\ handle.dist_type = NMSLIB_DISTTYPE_FLOAT
      /\ IsSparseSpace(handle.space)
      /\ Len(lastCall.arg.raw) > 0
      /\ StrictlyIncreasing(lastCall.arg.raw) )
    => /\ lastCall.status = NMSLIB_SUCCESS
       /\ Len(handle.data) = Len(lastCall.arg.before) + 1

\* C6: after a successful borrow, invoking the returned free_fn once on the
\* returned data pointer succeeds: it releases the data buffer and its
\* wrapper, and reads no block as something it is not.
C6_ReleaseFreesBorrow ==
    lastCall.op = "borrowed_data_free"
    => /\ lastCall.fault = "none"
       /\ ~crashed
       /\ heap[lastCall.arg.data] = Freed
       /\ heap[lastCall.arg.wrapper] = Freed

\* C7: for every handle created with point kind P and distance kind D, the
\* discriminant read from the handle is (P, D) in every later state, after any
\* sequence of insert, build, reset, query, borrow, save and thread-pool-size
\* operations.
C7_DiscriminantIntegrity ==
    handle # NoHandle => <<handle.data_type, handle.dist_type>> = created
\* a sparse handle that held points has been reset
C7_Witness ==
    /\ lastCall.op = "reset_index"
    /\ handle # NoHandle
    /\ created = <<NMSLIB_DATATYPE_SPARSE_VECTOR, NMSLIB_DISTTYPE_FLOAT>>

\* C8: every public operation routes by the handle's discriminant: for a
\* handle created with distance kind INT, build, query-size, query-fill, reset,
\* save and destroy access the space, search structure and engine factories of
\* the integer instantiation and never those of the float one (and
\* symmetrically for FLOAT).
C8_TypedDispatch ==
    ( /\ lastCall.op \in {"create_index", "knn_query_get_size", "knn_query_fill",
                          "reset_index", "save_index", "index_destroy"}
      /\ lastCall.h = "live"
      /\ lastCall.inst # {} )
    => lastCall.inst = {InstOf(created[2])}

\* C9: nmslib_index_create tries the float instantiation first and falls back
\* to the integer one when the name is unknown there: a space name known only
\* to the integer registry yields a usable integer-instantiation handle.
C9_FallbackToInt ==
    ( /\ lastCall.op = "index_create"
      /\ lastCall.arg.ptrs_ok
      /\ lastCall.arg.dist_type \in DistTypes
      /\ lastCall.out.env = "ok"
      /\ lastCall.arg.space \in (DOMAIN IntSpaces) \ (DOMAIN FloatSpaces) )
    => /\ lastCall.status = NMSLIB_SUCCESS
       /\ handle # NoHandle
       /\ handle.space = CreateSpace("int", lastCall.arg.space)

StatusOps ==
    {"add_data_point", "add_data_point_batch_uint8", "create_index",
     "reset_index", "knn_query_get_size", "knn_query_fill", "range_query_fill",
     "borrow_data_dense", "borrow_data_sparse", "save_index",
     "set_thread_pool_size"}

\* C11: every handle-taking operation that returns a status code (build,
\* reset, insert, query, borrow, save, set-parameters), when called with a
\* null handle, fails with NULL_POINTER.
C11_NullHandleNullPointer ==
    (lastCall.op \in StatusOps /\ lastCall.h = "null")
    => lastCall.status = NMSLIB_ERROR_NULL_POINTER

\* C12: nmslib_index_destroy on a null handle does nothing; on a live handle
\* it releases every owned point, the built structure and the space, and
\* returns the handle memory exactly once through the allocator that
\* allocated it, leaving every other block as it was.
C12_DestroyReleases ==
    [][ lastCall'.op = "index_destroy" =>
          IF lastCall'.h = "null"
          THEN UNCHANGED <<handle, created, heap, borrows, result, last_error, disk, batch>>
          ELSE /\ handle # NoHandle /\ handle' = NoHandle
               /\ lastCall'.out.released =
                     [points |-> Len(handle.data),
                      structure |-> handle.index_ptr # NoIndex, space |-> TRUE]
               /\ heap[handle.addr] # Freed
               /\ lastCall'.out.freed = handle.addr
               /\ lastCall'.out.via = heap[handle.addr].alloc
               /\ lastCall'.allocs = 1
               /\ heap' = [heap EXCEPT ![handle.addr] = Freed] ]_vars
\* a built handle holding a point has been destroyed
C12_Witness ==
    /\ lastCall.op = "index_destroy"
    /\ lastCall.h = "live"
    /\ lastCall.out.released.points > 0
    /\ lastCall.out.released.structure
    /\ handle = NoHandle

\* C13: save(h, p, includeData = true) followed by load(p, the same point
\* kind and distance kind, alloc, includeData = true) succeeds and yields a
\* handle on which knn fill returns the same ordered (id, distance) list as on
\* h before saving: the loaded handle holds the saved points and the saved
\* structure, of which the answers of a fill are a function.
C13_SaveLoadRoundTrip ==
    ( /\ lastCall.op = "load_index"
      /\ lastCall.arg.ptrs_ok
      /\ lastCall.arg.load_data
      /\ lastCall.arg.env \in {"crash", "method_throws"}
      /\ disk # NoFile
      /\ disk.has_data
      /\ <<lastCall.arg.data_type, lastCall.arg.dist_type>> = created )
    => /\ lastCall.status = NMSLIB_SUCCESS
       /\ ~crashed
       /\ handle # NoHandle
       /\ handle.data = disk.data
       /\ handle.index_ptr = disk.structure

\* what a single-query fill of query i of the batch yields in its buffer
SingleFill(queries, k, rs, pop, i) ==
    knn_copy(Buffer(rs[i]), KnnQueue(BuiltOver(handle), queries[i], k, pop)).result
BatchReturned == lastCall.op = "knn_query_batch" /\ lastCall.status # NoReturn

\* C14: for every thread_pool_size and every interleaving of the workers, a
\* successful nmslib_knn_query_batch over n queries leaves in results[i]
\* exactly what a single-query fill of queries[i] yields; while the call runs,
\* a result slot holds either what the caller passed or the result of its own
\* query, never that of another.
C14_BatchIndexPreserved ==
    /\ batch # NoBatch =>
          \A i \in 1..Len(batch.queries) :
             \/ batch.results[i] = Buffer(batch.rs[i])
             \/ batch.results[i] =
                   SingleFill(batch.queries, batch.k, batch.rs, batch.pop, i)
    /\ (BatchReturned /\ lastCall.status = NMSLIB_SUCCESS) =>
          \A i \in 1..Len(lastCall.arg.queries) :
             lastCall.out.results[i] =
                SingleFill(lastCall.arg.queries, lastCall.arg.k, lastCall.arg.rs,
                           lastCall.arg.pop, i)
\* a successful batch of two different queries in which the second worker ran
\* the first query and the first worker the second
C14_Witness ==
    /\ BatchReturned
    /\ lastCall.status = NMSLIB_SUCCESS
    /\ Len(lastCall.arg.queries) >= 2
    /\ lastCall.out.by[1] = 2
    /\ lastCall.out.by[2] = 1
    /\ lastCall.out.results[1] # lastCall.out.results[2]
    /\ lastCall.out.results[1].size > 0

\* C15: when a query of nmslib_knn_query_batch fails, the status returned to
\* the caller, and left in the caller's last-error slot, is the code of the
\* first failing query (INVALID_ARGUMENT, BUFFER_TOO_SMALL,
\* INVALID_SPARSE_ELEMENT or SPACE_INCOMPATIBLE).
C15_BatchFirstError ==
    ( /\ BatchReturned
      /\ lastCall.out.failed # <<>>
      /\ lastCall.out.failed[1].code # NoCode )
    => /\ lastCall.status = lastCall.out.failed[1].code
       /\ last_error[lastCall.t] = lastCall.out.failed[1].code

BatchInsertOps == {"add_data_point_batch", "add_data_point_batch_uint8",
                   "add_data_point_batch_string"}
\* the elements of the call that precede the one the engine failed at
ElementsBefore(c) ==
    IF c.status = NMSLIB_ERROR_RUNTIME /\ c.arg.fail_at > 0
    THEN c.arg.fail_at - 1 ELSE 0

PointFillChecked ==
    /\ lastCall.op = "get_data_point_fill"
    /\ lastCall.h = "live"
    /\ lastCall.status # NMSLIB_ERROR_INVALID_ARGUMENT
    /\ lastCall.status # NMSLIB_ERROR_SPACE_INCOMPATIBLE
StoredPoint == handle.data[lastCall.arg.position + 1].elems

\* C17: nmslib_get_data_point_fill returns BUFFER_TOO_SMALL and writes nothing
\* into the destination when the stored point at the position has more
\* elements than the capacity `size`; when the capacity suffices it writes
\* exactly the point's elements and nothing beyond them.
C17_PointFillBounded ==
    PointFillChecked =>
       IF lastCall.arg.size < Len(StoredPoint)
       THEN /\ lastCall.status = NMSLIB_ERROR_BUFFER_TOO_SMALL
            /\ lastCall.out = PointBuffer(lastCall.arg.size)
       ELSE /\ lastCall.status # NMSLIB_ERROR_BUFFER_TOO_SMALL
            /\ lastCall.arg.env = "ok" => lastCall.status = NMSLIB_SUCCESS
            /\ lastCall.status = NMSLIB_SUCCESS =>
                  \A i \in 1..lastCall.arg.size :
                     lastCall.out[i] = IF i <= Len(StoredPoint) THEN StoredPoint[i]
                                       ELSE Unwritten
            /\ lastCall.status # NMSLIB_SUCCESS =>
                  lastCall.out = PointBuffer(lastCall.arg.size)
\* a one-element buffer refused for a two-element point
C17_Witness ==
    /\ PointFillChecked
    /\ lastCall.arg.size = 1
    /\ Len(StoredPoint) = 2
    /\ lastCall.status = NMSLIB_ERROR_BUFFER_TOO_SMALL

\* the number of neighbours a k-NN search of the structure finds
KnnFound(k) == Min(k, Cardinality(Entries(BuiltOver(handle), lastCall.arg.query)))
SlotWritten(i) == result.ids[i] # Unwritten /\ result.distances[i] # Unwritten
SlotUntouched(i) == result.ids[i] = Unwritten /\ result.distances[i] = Unwritten

\* C18: a successful nmslib_knn_query_fill sets result.size to exactly the
\* number of neighbours the search found, with size <= capacity and exactly
\* the entries [0, size) written; when no neighbour is found the call still
\* succeeds, with size = 0 and no entry written.
C18_KnnFillExactSize ==
    /\ ( /\ lastCall.op = "knn_query_fill"
         /\ lastCall.status = NMSLIB_SUCCESS )
       => /\ result.size = KnnFound(lastCall.arg.k)
          /\ result.size <= result.capacity
          /\ \A i \in 1..result.capacity :
                IF i <= result.size THEN SlotWritten(i) ELSE SlotUntouched(i)
    /\ ( /\ lastCall.op = "knn_query_fill"
         /\ lastCall.h = "live"
         /\ Built
         /\ ValidResultArg(lastCall.arg.r)
         /\ lastCall.arg.r.capacity >= lastCall.arg.k
         /\ lastCall.arg.env \in {"closest_first", "closest_last"}
         /\ KnnFound(lastCall.arg.k) = 0 )
       => /\ lastCall.status = NMSLIB_SUCCESS
          /\ result.size = 0
\* a search that found one neighbour, written into a buffer of two entries
C18_Witness ==
    /\ lastCall.op = "knn_query_fill"
    /\ lastCall.status = NMSLIB_SUCCESS
    /\ result.size = 1
    /\ result.capacity = 2
    /\ SlotWritten(1)

\* the number of points of the structure within the radius of the query
RangeCount ==
    Len(RangeFound(BuiltOver(handle), lastCall.arg.query, lastCall.arg.radius))

\* C19: nmslib_range_query_fill on a built index, given a usable result
\* structure: when more points lie within the radius than result.capacity
\* holds it returns BUFFER_TOO_SMALL, writes nothing and leaves
\* result.size == 0; when none lies within the radius it succeeds with size 0.
C19_RangeFillAllOrNothing ==
    ( /\ lastCall.op = "range_query_fill"
      /\ lastCall.h = "live"
      /\ Built
      /\ ValidResultArg(lastCall.arg.r)
      /\ lastCall.arg.env = "closest_first" )
    => /\ RangeCount > lastCall.arg.r.capacity =>
             /\ lastCall.status = NMSLIB_ERROR_BUFFER_TOO_SMALL
             /\ \A i \in 1..result.capacity : SlotUntouched(i)
             /\ result.size = 0
       /\ RangeCount = 0 =>
             /\ lastCall.status = NMSLIB_SUCCESS
             /\ result.size = 0

\* C20: nmslib_create_index that returns SUCCESS leaves the handle Built with
\* a complete search structure over all the points it currently holds, on an
\* Unbuilt handle and on a Built one alike: called again without a reset it
\* replaces the structure by one rebuilt from the current points, and the
\* structure the handle held before is released, so that the handle owns
\* exactly one.
C20_CreateIndexBuilds ==
    ( /\ lastCall.op = "create_index"
      /\ lastCall.h = "live"
      /\ lastCall.status = NMSLIB_SUCCESS )
    => /\ Built
       /\ handle.index_ptr.complete
       /\ handle.index_ptr.over = Len(handle.data)
       /\ lastCall.out.released = lastCall.out.before
\* a second build, after a point was added to a Built handle
C20_Witness ==
    /\ lastCall.op = "create_index"
    /\ lastCall.status = NMSLIB_SUCCESS
    /\ lastCall.out.before # NoIndex
    /\ lastCall.out.before.over < Len(handle.data)
    /\ lastCall.out.released = lastCall.out.before

\* C21: nmslib_reset_index on any live handle, Built or Unbuilt, succeeds,
\* deletes all points and the search structure and leaves the handle Unbuilt
\* with no point, while the discriminant, the space, the method name, the space
\* name, the captured allocator and the thread-pool size stay as they were.
C21_ResetClears ==
    [][ (lastCall'.op = "reset_index" /\ lastCall'.h = "live")
        => /\ lastCall'.status = NMSLIB_SUCCESS
           /\ handle'.data = <<>>
           /\ handle'.index_ptr = NoIndex
           /\ handle'.data_type = handle.data_type
           /\ handle'.dist_type = handle.dist_type
           /\ handle'.space = handle.space
           /\ handle'.method = handle.method
           /\ handle'.space_type = handle.space_type
           /\ handle'.allocator = handle.allocator
           /\ handle'.thread_pool_size = handle.thread_pool_size
           /\ handle'.addr = handle.addr ]_vars
\* a Built handle that held a point and whose thread-pool size had been set
\* has been reset
C21_Witness ==
    /\ lastCall.op = "reset_index"
    /\ lastCall.h = "live"
    /\ lastCall.arg.count > 0
    /\ lastCall.arg.built
    /\ handle.thread_pool_size = 2
    /\ handle.data = <<>>

\* the public operations that return no status
VoidOps == {"index_destroy", "free_string", "get_thread_pool_size", "data_qty"}
\* the code a call leaves behind when it describes that call: its status, or
\* SUCCESS for an operation without a status that did what it was asked
OwnCode(c) ==
    IF c.op \in VoidOps
    THEN IF c.h = "null" THEN NMSLIB_ERROR_INVALID_ARGUMENT ELSE NMSLIB_SUCCESS
    ELSE c.status

\* C22: every public operation overwrites the calling thread's last-error slot
\* on every return path, success or failure: after any call the slot of the
\* thread that made it describes that call and never an earlier one.
C22_SlotDescribesLastCall ==
    ( /\ lastCall.op # "none"
      /\ lastCall.op # "borrowed_data_free"
      /\ ~crashed
      /\ batch = NoBatch )
    => last_error[lastCall.t] = OwnCode(lastCall)

\* C23: the last-error slot is per thread: under any interleaving of the calls
\* of two threads, a call made on one thread never changes the slot of the
\* other, and nmslib_get_last_error_detail on a thread reports the code that
\* thread's slot held, the one its own most recent call left there.
C23_SlotPerThread ==
    [][ /\ \A t \in Threads : lastCall'.t # t => last_error'[t] = last_error[t]
        /\ ( /\ lastCall'.op = "get_last_error_detail"
             /\ lastCall'.arg.detail
             /\ lastCall'.arg.allocator )
           => lastCall'.out.code = last_error[lastCall'.t] ]_vars
\* a thread reads the error of its own failed call although the other thread
\* has made a successful call, the last before the read, in between
C23_Witness ==
    /\ lastCall.op = "get_last_error_detail"
    /\ lastCall.status = NMSLIB_SUCCESS
    /\ lastCall.arg.prev.t # lastCall.t
    /\ lastCall.arg.prev.t \in Threads
    /\ lastCall.arg.prev.status = NMSLIB_SUCCESS
    /\ lastCall.out.code = NMSLIB_ERROR_INDEX_BUILD_FAILED

\* C24: for every fallible call that returns a status s other than SUCCESS,
\* nmslib_get_last_error_detail called next on the same thread with a valid
\* detail pointer and allocator reports detail.code = s.
C24_DetailReportsStatus ==
    ( /\ lastCall.op = "get_last_error_detail"
      /\ lastCall.arg.detail
      /\ lastCall.arg.allocator
      /\ lastCall.arg.prev.t = lastCall.t
      /\ lastCall.arg.prev.status # NoReturn
      /\ lastCall.arg.prev.status # NMSLIB_SUCCESS )
    => lastCall.out.code = lastCall.arg.prev.status
\* the detail read right after a build that failed on the same thread
C24_Witness ==
    /\ lastCall.op = "get_last_error_detail"
    /\ lastCall.arg.detail
    /\ lastCall.arg.prev.t = lastCall.t
    /\ lastCall.arg.prev.status = NMSLIB_ERROR_INDEX_BUILD_FAILED
    /\ lastCall.out.code = NMSLIB_ERROR_INDEX_BUILD_FAILED
    /\ last_error[lastCall.t] = NMSLIB_ERROR_OUT_OF_MEMORY

\* C25: all argument validation happens before any allocation or engine call:
\* every call that returns INVALID_ARGUMENT, nmslib_index_create with a
\* distance kind that is neither FLOAT nor INT included, has made no call to
\* the caller's allocator and no call into the engine.
C25_ValidationFirst ==
    ( /\ lastCall.op # "none"
      /\ lastCall.status = NMSLIB_ERROR_INVALID_ARGUMENT )
    => /\ lastCall.allocs = 0
       /\ ~lastCall.engine
       /\ lastCall.op = "index_create" => Outstanding(heap) = lastCall.out.before

\* C26: nmslib_add_data_point_batch_uint8 accepts ids == NULL and assigns the
\* ids itself: on a uint8 handle with a uint8 space, a batch of valid rows
\* with ids == NULL, the engine not failing, succeeds and appends the rows.
C26_Uint8AutoIds ==
    ( /\ lastCall.op = "add_data_point_batch_uint8"
      /\ lastCall.h = "live"
      /\ ~lastCall.arg.ids_given
      /\ lastCall.arg.fail_at = 0
      /\ handle.data_type = NMSLIB_DATATYPE_DENSE_UINT8_VECTOR
      /\ handle.dist_type = NMSLIB_DISTTYPE_FLOAT
      /\ IsSiftSpace(handle.space) )
    => /\ lastCall.status = NMSLIB_SUCCESS
       /\ Len(handle.data) = Len(lastCall.arg.before) + Len(lastCall.arg.rows)

\* C27: a batch insert with ids == NULL through nmslib_add_data_point_batch or
\* nmslib_add_data_point_batch_string of valid elements into a handle whose
\* space takes them appends every element, each with its position in the
\* handle's point collection as id: the point at position p has id p.
C27_PositionalIds ==
    ( /\ lastCall.h = "live"
      /\ ~lastCall.arg.ids_given
      /\ lastCall.arg.fail_at = 0
      /\ handle.dist_type = NMSLIB_DISTTYPE_FLOAT
      /\ \/ /\ lastCall.op = "add_data_point_batch"
            /\ handle.data_type = NMSLIB_DATATYPE_DENSE_VECTOR
            /\ IsVectorSpace(handle.space, "float")
         \/ /\ lastCall.op = "add_data_point_batch_string"
            /\ handle.data_type = NMSLIB_DATATYPE_OBJECT_AS_STRING )
    => /\ lastCall.status = NMSLIB_SUCCESS
       /\ Len(handle.data) = Len(lastCall.arg.before) + Len(lastCall.arg.rows)
       /\ \A p \in Len(lastCall.arg.before) + 1 .. Len(handle.data) :
             handle.data[p].id = p - 1

\* C28: in every reachable state in which the handle is Built, the structure
\* was built over exactly the points the handle holds now: a successful insert
\* after a build leaves no Built handle whose structure omits the new point.
C28_BuiltReflectsPoints ==
    Built => handle.index_ptr.over = Len(handle.data)

\* the query and introspection operations
ReadOps ==
    {"knn_query_get_size", "knn_query_fill", "range_query_get_size",
     "range_query_fill", "knn_query_batch", "get_distance",
     "get_data_point_size", "get_data_point_fill", "get_data_point_string",
     "data_qty"}

\* C29: a query or introspection operation on a Built handle (k-NN and range
\* get-size and fill, the k-NN batch and each step of its workers,
\* get_distance, get_data_point_size, get_data_point_fill,
\* get_data_point_string, data_qty) leaves every field of the handle as it was.
C29_QueriesReadOnly ==
    [][ ( /\ Built
          /\ batch' # batch \/ lastCall'.op \in ReadOps )
        => handle' = handle ]_vars
\* a range get-size that found a point of the structure
C29_Witness ==
    /\ Built
    /\ lastCall.op = "range_query_get_size"
    /\ lastCall.status = NMSLIB_SUCCESS
    /\ lastCall.out.out_size >= 1

\* the engine threw inside the last call: the call passed its validation and
\* reached the engine call that the environment made throw
EngineThrew ==
    \/ /\ lastCall.op = "index_create"
       /\ lastCall.engine
       /\ CreateSpace(InstOf(lastCall.arg.dist_type), lastCall.arg.space) # NullSpace
       /\ lastCall.out.env \in {"throws", "bad_alloc"}
    \/ /\ lastCall.op = "load_index"
       /\ lastCall.engine
       /\ lastCall.arg.env \in {"method_throws", "bad_alloc"}
    \/ /\ lastCall.op = "add_data_point_batch_uint8"
       /\ lastCall.inst # {}
       /\ handle.data_type = NMSLIB_DATATYPE_DENSE_UINT8_VECTOR
       /\ handle.dist_type = NMSLIB_DISTTYPE_FLOAT
       /\ IsSiftSpace(handle.space)
       /\ lastCall.arg.fail_at \in 1..Len(lastCall.arg.rows)
    \/ /\ lastCall.op = "create_index"
       /\ lastCall.h = "live"
       /\ lastCall.arg.env # "ok"
    \/ /\ lastCall.op \in {"knn_query_get_size", "knn_query_fill",
                           "range_query_get_size", "range_query_fill"}
       /\ lastCall.engine
       /\ \/ lastCall.arg.env = "obj_throws"
          \/ lastCall.arg.env = "search_throws" /\ Built
    \/ /\ lastCall.op = "save_index"
       /\ lastCall.engine
       /\ lastCall.arg.throws

\* the engine ran out of memory (std::bad_alloc) rather than failing otherwise
ThrewBadAlloc ==
    \/ lastCall.op = "index_create" /\ lastCall.out.env = "bad_alloc"
    \/ lastCall.op = "load_index" /\ lastCall.arg.env = "bad_alloc"
    \/ lastCall.op = "create_index" /\ lastCall.arg.env = "create_bad_alloc"

C31_FailedBuildUnbuilt ==
    ( /\ lastCall.op = "create_index"
      /\ lastCall.h = "live"
      /\ lastCall.status \in {NMSLIB_ERROR_OUT_OF_MEMORY,
                              NMSLIB_ERROR_INDEX_BUILD_FAILED} )
    => Unbuilt

\* C32: whenever nmslib_index_create or nmslib_load_index returns a
\* non-success status, every block it obtained from the caller's allocator
\* has been freed (the blocks outstanding are those outstanding before the
\* call) and *out_handle has not been written.
C32_FailedCreateReleases ==
    ( /\ lastCall.op \in {"index_create", "load_index"}
      /\ lastCall.status # NMSLIB_SUCCESS
      /\ lastCall.status # NoReturn )
    => /\ Outstanding(heap) = lastCall.out.before
       /\ ~lastCall.out.written

\* C33: nmslib_knn_query_fill called with valid pointers and result.capacity
\* < k returns INVALID_ARGUMENT without running the engine search and without
\* modifying result (ids, distances, size), however many neighbours exist;
\* and no k-NN fill returns BUFFER_TOO_SMALL, the engine yielding at most k
\* neighbours.
C33_SmallCapacityRejected ==
    ( /\ lastCall.op = "knn_query_fill"
      /\ lastCall.h = "live" )
    => /\ lastCall.status # NMSLIB_ERROR_BUFFER_TOO_SMALL
       /\ ( ValidResultArg(lastCall.arg.r)
            /\ lastCall.arg.r.capacity < lastCall.arg.k )
          => /\ lastCall.status = NMSLIB_ERROR_INVALID_ARGUMENT
             /\ ~lastCall.engine
             /\ result = Buffer(lastCall.arg.r)
\* a fill of a structure built over two points, asked for two neighbours with
\* room for one
C33_Witness ==
    /\ Built
    /\ handle.index_ptr.over >= 2
    /\ lastCall.op = "knn_query_fill"
    /\ lastCall.arg.k = 2
    /\ lastCall.arg.r.capacity = 1
    /\ lastCall.status = NMSLIB_ERROR_INVALID_ARGUMENT

\* C34: for every handle and every query for which nmslib_knn_query_get_size
\* succeeds and reports n (the handle is Built and the get-size accepts its
\* point kind and distance kind; n is the smaller of k and the number of
\* points searched), nmslib_knn_query_fill with the same query and k and a
\* result buffer of capacity >= max(n, k) succeeds with result.size = n.
C34_FillMatchesGetSize ==
    ( /\ lastCall.op = "knn_query_fill"
      /\ lastCall.h = "live"
      /\ Built
      /\ ValidResultArg(lastCall.arg.r)
      /\ lastCall.arg.r.capacity >= lastCall.arg.k
      /\ lastCall.arg.env \in {"closest_first", "closest_last"}
      /\ get_size_encode(handle, lastCall.arg.query, Len(lastCall.arg.query))
            = NMSLIB_SUCCESS )
    => /\ lastCall.status = NMSLIB_SUCCESS
       /\ result.size = Min(lastCall.arg.k, handle.index_ptr.over)

\* C35: nmslib_get_last_error_detail is not a pure read: called with a valid
\* detail pointer and allocator it reports the code in the calling thread's
\* slot and, when it succeeds, overwrites that slot with SUCCESS; so when the
\* same thread calls it again right after a successful call, the second call
\* reports SUCCESS.
C35_DetailClearsSlot ==
    [][ ( /\ lastCall'.op = "get_last_error_detail"
          /\ lastCall' # lastCall
          /\ lastCall'.arg.detail
          /\ lastCall'.arg.allocator )
        => /\ lastCall'.out.code = last_error[lastCall'.t]
           /\ lastCall'.status = NMSLIB_SUCCESS
                => last_error'[lastCall'.t] = NMSLIB_SUCCESS
           /\ ( /\ lastCall.op = "get_last_error_detail"
                /\ lastCall.t = lastCall'.t
                /\ lastCall.status = NMSLIB_SUCCESS )
              => lastCall'.out.code = NMSLIB_SUCCESS ]_vars
\* the second of two consecutive calls of a thread, the first of which
\* succeeded and reported the failure of the call before it
C35_Witness ==
    /\ lastCall.op = "get_last_error_detail"
    /\ lastCall.arg.prev.again
    /\ lastCall.out.code = NMSLIB_SUCCESS

\* the operations that take a position, and the positions of the last call
PositionOps ==
    {"get_distance", "get_data_point_size", "get_data_point_fill",
     "get_data_point_string", "borrow_data_dense", "borrow_data_sparse"}
CallPositions ==
    IF lastCall.op = "get_distance" THEN {lastCall.arg.pos1, lastCall.arg.pos2}
    ELSE {lastCall.arg.position}

\* C36: every position-taking operation (get_distance, get_data_point_size,
\* get_data_point_fill, get_data_point_string, borrow_data_dense,
\* borrow_data_sparse) called on a handle with a position >= the handle's
\* current data count returns INVALID_ARGUMENT without reaching the space or a
\* point and without an allocation, in every state including right after a
\* reset; a call that returns anything else had every position below the
\* count.
C36_PositionChecked ==
    ( /\ lastCall.op \in PositionOps
      /\ lastCall.h = "live"
      /\ \E p \in CallPositions : p >= Len(handle.data) )
    => /\ lastCall.status = NMSLIB_ERROR_INVALID_ARGUMENT
       /\ lastCall.inst = {}
       /\ lastCall.allocs = 0
       /\ ~lastCall.engine
\* a distance asked between the only point of a handle and the position just
\* past it
C36_Witness ==
    /\ lastCall.op = "get_distance"
    /\ lastCall.h = "live"
    /\ Len(handle.data) = 1
    /\ lastCall.arg.pos1 = 0
    /\ lastCall.arg.pos2 = 1
    /\ lastCall.status = NMSLIB_ERROR_INVALID_ARGUMENT

\* C37: nmslib_set_thread_pool_size with size 0 or size > 1024 returns
\* INVALID_ARGUMENT and leaves the stored value unchanged;
\* nmslib_get_thread_pool_size returns the stored value, which only a
\* successful set changes, to the size it was given, a value in 1..1024;
\* insert, build and reset never change it.
C37_ThreadPoolSize ==
    [][ ( handle # NoHandle /\ handle' # NoHandle )
        => /\ handle'.thread_pool_size # handle.thread_pool_size
                => /\ lastCall'.op = "set_thread_pool_size"
                   /\ lastCall'.status = NMSLIB_SUCCESS
                   /\ lastCall'.arg.size = handle'.thread_pool_size
                   /\ handle'.thread_pool_size \in 1..MaxThreadPoolSize
           /\ ( /\ lastCall'.op = "set_thread_pool_size"
                /\ lastCall'.arg.size \notin 1..MaxThreadPoolSize )
                => lastCall'.status = NMSLIB_ERROR_INVALID_ARGUMENT
           /\ lastCall'.op = "get_thread_pool_size"
                => lastCall'.out = handle.thread_pool_size ]_vars
\* a size above the limit refused on an Unbuilt handle that was given the
\* limit itself
C37_Witness ==
    /\ lastCall.op = "set_thread_pool_size"
    /\ lastCall.arg.size = MaxThreadPoolSize + 1
    /\ lastCall.status = NMSLIB_ERROR_INVALID_ARGUMENT
    /\ handle.thread_pool_size = MaxThreadPoolSize
    /\ Unbuilt
====
